---- MODULE Spec2Model ----
(***************************************************************************)
(* State-machine model of the pydynox request layer: QueryResult           *)
(* pagination (query.py), DynamoDBClient operations (client.py), the       *)
(* Model ORM paths that call them (model.py), the default-client registry  *)
(* (config.py) and the pydantic client handle (pydantic_integration.py).   *)
(***************************************************************************)
EXTENDS Integers, Sequences, FiniteSets, TLC

VARIABLES
    pages,      \* the store's answer to the query: page k holds pages[k] items
    q,          \* q[1]: the QueryResult being iterated, q[2]: one built to resume
    cap,        \* what was read from q[1] when q[2] was built
    rate_limit, \* DynamoDBClient._rate_limit is not None
    tables,     \* the names of the tables that exist
    store,      \* the table: store[k] is the item held under key k, or None
    last,       \* the last client call that ended: arguments, events, result
    calls,      \* how many client or model calls have been started
    pending,    \* async client calls suspended at their await, oldest first
    client_instance, \* per class: its own _client_instance attribute
    config_client,   \* per class: the client of its own model_config
    skip_hooks_cfg,  \* model_config.skip_hooks
    default_client,  \* config._default_client
    first_ret,       \* per class: the first client _get_client() returned
    last_ret,        \* per class: the latest client _get_client() returned
    asked,           \* the latest _get_client() call: class, outcome, default then
    inst,            \* the attribute values of one User instance
    upd,             \* the last save, delete or update that ended: arguments, outcome
    awaiting,        \* async model calls suspended at their await, oldest first
    pyd_client,      \* cls._pydynox_client of a @dynamodb_model class (0: None)
    constructed,     \* DynamoDBClient objects constructed for that class
    thr,             \* per thread: where it is in _get_client and what it holds
    defs,            \* per class: what ModelMeta.__new__ stored when it was defined
    bound,           \* per index object: the model class it is bound to
    keyres,          \* the latest _get_key() call and the key it built
    conv,            \* the latest attribute conversion: input and outcome
    objs             \* list objects, the instances that hold them, the last append

qvars == <<pages, q, cap>>
cvars == <<rate_limit, tables, store, last, calls, pending>>
mvars == <<client_instance, config_client, skip_hooks_cfg, default_client,
           first_ret, last_ret, asked>>

uvars == <<inst, upd, awaiting>>
rvars == <<pyd_client, constructed, thr>>
kvars == <<defs, bound, keyres>>
avars == <<conv, objs>>

vars == <<pages, q, cap, rate_limit, tables, store, last, calls, pending, client_instance,
          config_client, skip_hooks_cfg, default_client, first_ret, last_ret, asked,
          inst, upd, awaiting, pyd_client, constructed, thr, defs, bound, keyres,
          conv, objs>>

\* What the steps of one part of the program leave alone
not_qvars == <<cvars, mvars, uvars, rvars, kvars, avars>>
not_cvars == <<qvars, mvars, uvars, rvars, kvars, avars>>
not_mvars == <<qvars, cvars, uvars, rvars, kvars, avars>>
not_rvars == <<qvars, cvars, mvars, uvars, kvars, avars>>
not_kvars == <<qvars, cvars, mvars, uvars, rvars, avars>>
not_avars == <<qvars, cvars, mvars, uvars, rvars, kvars>>

(***************************************************************************)
(* Bounds                                                                  *)
(***************************************************************************)
MaxPages == 3        \* server-side pages of one query
MaxPageSize == 2     \* items per server-side page
MaxStops == 2        \* next() calls answered by StopIteration per iterator
MaxRetries == 2      \* configured maximum number of retries of one wire call
MaxBatch == 2        \* items / keys handed to one batch call
MaxAtomic == 1       \* atomic operations of one update
MaxCond == 2         \* comparisons of one condition
MaxKwargs == 2       \* keyword arguments of one update
MaxItemSize == 2     \* bytes of an item, and of model_config.max_size
MaxSeconds == 1      \* seconds of a datetime
MaxInstances == 2    \* instances of one model class
MaxAppends == 2      \* items appended to one list
MaxCalls == 2        \* calls started in one behaviour
NumThreads == 3      \* threads calling _get_client at the same time

\* Python's None for a key/cursor; cursors are 1..P-1
NoKey == 0
\* Python's None for limit
NoLimit == 0

(***************************************************************************)
(* The store behind query_page: items are numbered 1..N in server order.   *)
(***************************************************************************)
DropFirst(s, n) == SubSeq(s, n + 1, Len(s))

RECURSIVE SumTo(_, _)
SumTo(s, k) == IF k = 0 THEN 0 ELSE s[k] + SumTo(s, k - 1)

NumPages == Len(pages)

PageItems(k) == [j \in 1..pages[k] |-> SumTo(pages, k - 1) + j]

AllItems == [j \in 1..SumTo(pages, NumPages) |-> j]

\* One wire call: the page after exclusive_start_key and the cursor it carries
\* (none on the last page).
query_page(exclusive_start_key) ==
    LET k == exclusive_start_key + 1
    IN  [items |-> PageItems(k),
         lek   |-> IF k < NumPages THEN k ELSE NoKey]

(***************************************************************************)
(* QueryResult                                                             *)
(***************************************************************************)
\* QueryResult.__init__; yielded/events/stops/ended_with record what the
\* iterator did (items returned, rate-limiter and wire calls, StopIterations,
\* the items returned before the first StopIteration).  trace holds, in the
\* order they happened, every capacity request, wire call, returned item and
\* StopIteration, each with the number of the next() call it happened in.
QueryResultInit(last_evaluated_key, limit, acquire_rcu) ==
    [start_key          |-> last_evaluated_key,
     limit              |-> limit,
     acquire_rcu        |-> acquire_rcu,
     current_page       |-> <<>>,
     page_index         |-> 0,
     last_evaluated_key |-> NoKey,
     exhausted          |-> FALSE,
     first_fetch        |-> TRUE,
     yielded            |-> <<>>,
     events             |-> <<>>,
     stops              |-> 0,
     ended_with         |-> <<>>,
     trace              |-> <<>>,
     error              |-> "none"]

\* DynamoDBClient.query: a QueryResult wired to the client's _acquire_rcu
ClientQuery_DropsStartKey(last_evaluated_key, limit) ==
    QueryResultInit(NoKey, limit, TRUE)

ClientQuery(last_evaluated_key, limit) ==
    QueryResultInit(last_evaluated_key, limit, TRUE)

\* An estimate that ignores the page limit
RcuEstimate_IgnoresLimit(limit) == 1

\* rcu_estimate = float(self._limit) if self._limit else 1.0
RcuEstimate(limit) == IF limit # NoLimit THEN limit ELSE 1

\* The next() call in progress on r
CallNo(r) == Len(r.yielded) + r.stops + 1

\* One step of the trace.  n: the estimate of a capacity request, the
\* exclusive start key of a wire call, the item returned; lek, count: the
\* cursor and the number of items a wire call returned; unread: the items
\* of the page buffer not yet returned when the step happened
Step(r, op, n, lek, count) ==
    [op |-> op, call |-> CallNo(r), n |-> n, lek |-> lek, count |-> count,
     unread |-> Len(r.current_page) - r.page_index]

AcquireSteps(r) ==
    IF r.acquire_rcu THEN << Step(r, "acquire_rcu", RcuEstimate(r.limit), NoKey, 0) >>
    ELSE <<>>

\* A first fetch that ignores the key the QueryResult was constructed with
StartKeyOf_IgnoresStartKey(r) == r.last_evaluated_key

\* start_key = self._start_key if self._first_fetch else self._last_evaluated_key
StartKeyOf(r) == IF r.first_fetch THEN r.start_key ELSE r.last_evaluated_key

AcquireEvents(r) ==
    IF r.acquire_rcu THEN << [op |-> "acquire_rcu", n |-> RcuEstimate(r.limit)] >>
    ELSE <<>>

\* A bug that keeps the key the page was asked with instead of the one returned
FetchNextPage_StaleCursor(r) ==
    IF ~r.first_fetch /\ r.last_evaluated_key = NoKey
    THEN [r EXCEPT !.exhausted = TRUE]
    ELSE LET start_key == IF r.first_fetch THEN r.start_key ELSE r.last_evaluated_key
             res == query_page(start_key)
         IN  [r EXCEPT !.first_fetch = FALSE,
                       !.events = @ \o AcquireEvents(r)
                                    \o << [op |-> "query_page", n |-> start_key] >>,
                       !.trace = @ \o AcquireSteps(r)
                                   \o << Step(r, "query_page", start_key, res.lek,
                                               Len(res.items)) >>,
                       !.last_evaluated_key = start_key,
                       !.current_page = res.items,
                       !.page_index = 0,
                       !.exhausted = IF start_key = NoKey THEN TRUE ELSE @]

\* QueryResult._fetch_next_page
FetchNextPage(r) ==
    IF ~r.first_fetch /\ r.last_evaluated_key = NoKey
    THEN [r EXCEPT !.exhausted = TRUE]
    ELSE LET start_key == StartKeyOf(r)
             res == query_page(start_key)
         IN  [r EXCEPT !.first_fetch = FALSE,
                       !.events = @ \o AcquireEvents(r)
                                    \o << [op |-> "query_page", n |-> start_key] >>,
                       !.trace = @ \o AcquireSteps(r)
                                   \o << Step(r, "query_page", start_key, res.lek,
                                               Len(res.items)) >>,
                       !.last_evaluated_key = res.lek,
                       !.current_page = res.items,
                       !.page_index = 0,
                       !.exhausted = IF res.lek = NoKey THEN TRUE ELSE @]

\* item = self._current_page[self._page_index]; self._page_index += 1; return item
ReturnItem(r) ==
    IF r.page_index < Len(r.current_page)
    THEN [r EXCEPT !.yielded = Append(@, r.current_page[r.page_index + 1]),
                   !.trace = Append(@, Step(r, "yield", r.current_page[r.page_index + 1],
                                            NoKey, 0)),
                   !.page_index = @ + 1]
    ELSE [r EXCEPT !.error = "IndexError"]

\* raise StopIteration
RaiseStop(r) ==
    [r EXCEPT !.stops = @ + 1,
              !.trace = Append(@, Step(r, "stop", 0, NoKey, 0)),
              !.ended_with = IF r.stops = 0 THEN r.yielded ELSE @]

\* A next() that takes an item from the page it fetched without looking
\* whether the page holds one
QueryNext_IgnoresEmptyPage(r) ==
    IF r.page_index < Len(r.current_page) THEN ReturnItem(r)
    ELSE IF r.exhausted THEN RaiseStop(r)
    ELSE ReturnItem(FetchNextPage(r))

\* QueryResult.__next__
QueryNext(r) ==
    IF r.page_index < Len(r.current_page) THEN ReturnItem(r)
    ELSE IF r.exhausted THEN RaiseStop(r)
    ELSE LET f == FetchNextPage(r)
         IN  IF f.current_page = <<>> THEN RaiseStop(f) ELSE ReturnItem(f)

NotBuilt == [built |-> FALSE]

Built(r) == "start_key" \in DOMAIN r

\* The splits of a query's items over its pages, and the page limit in force:
\* with a limit no page is longer than the limit.
Splits == UNION { [1..p -> 0..MaxPageSize] : p \in 1..MaxPages }

QInit ==
    /\ pages \in Splits
    /\ \E limit \in {NoLimit, MaxPageSize} :
          q = <<ClientQuery(NoKey, limit), NotBuilt>>
    /\ cap = [taken |-> FALSE]

\* next(result) on iterator i
Next_(i) ==
    /\ Built(q[i])
    /\ q[i].stops < MaxStops
    /\ q[i].error = "none"
    /\ q' = [q EXCEPT ![i] = QueryNext(q[i])]
    /\ UNCHANGED <<pages, cap>>
    /\ UNCHANGED not_qvars

\* key = result.last_evaluated_key; client.query(..., last_evaluated_key=key)
Resume ==
    /\ ~cap.taken
    /\ LET r == q[1]
       IN  /\ cap' = [taken   |-> TRUE,
                      key     |-> r.last_evaluated_key,
                      started |-> ~r.first_fetch,
                      ended   |-> r.stops > 0,
                      count   |-> Len(r.yielded),
                      unread  |-> Len(r.current_page) - r.page_index]
           /\ q' = [q EXCEPT ![2] = ClientQuery(r.last_evaluated_key, r.limit)]
    /\ UNCHANGED pages
    /\ UNCHANGED not_qvars

QNext == (\E i \in 1..2 : Next_(i)) \/ Resume

(***************************************************************************)
(* The wire: one core call and its physical attempts. net[i] is what the   *)
(* i-th attempt of the call meets.                                         *)
(***************************************************************************)
Transient == {"ThrottlingError", "TimeoutError"}
Terminal == {"ValidationError", "ConditionCheckFailedError"}
AttemptResults == {"ok"} \cup Transient \cup Terminal

Nets == [1..(MaxRetries + 1) -> AttemptResults]

Ev(ev, op, n) == [ev |-> ev, op |-> op, n |-> n]

\* Retry policy: a transient failure is dispatched again until max_retries
\* retries are spent; success and terminal failures end the call at once.
RECURSIVE Attempt(_, _, _)
Attempt(net, i, max_retries) ==
    IF net[i] \in Transient /\ i - 1 < max_retries
    THEN Attempt(net, i + 1, max_retries)
    ELSE [attempts |-> i, outcome |-> net[i]]

\* Transactions are dispatched once; every other call follows the retry policy.
RetriesFor(method) == IF method = "transact_write" THEN 0 ELSE MaxRetries

CoreCall(method, net) ==
    LET a == Attempt(net, 1, RetriesFor(method))
    IN  [events      |-> <<Ev("call", method, 0)>> \o
                         [j \in 1..a.attempts |-> Ev("dispatch", method, j)],
         outcome     |-> a.outcome,
         retry_count |-> a.attempts - 1]

(***************************************************************************)
(* DynamoDBClient                                                          *)
(***************************************************************************)
Keys == {"k1", "k2"}
Names == {"a", "b"}
DurationsMs == {50, 100, 101}

\* _SLOW_QUERY_THRESHOLD_MS
SlowQueryThresholdMs == 100

PyNone == [none |-> TRUE]

\* An item of the table: its key and one more attribute
Item(key, name) == [pk |-> key, name |-> name]

\* What the table returns for a key: the stored item, or None
WireItem(key) == store[key]

\* What the table holds once the service has carried out a put, a delete or
\* an update (the update creates the item when the key holds none)
Put(table, item) == [table EXCEPT ![item.pk] = item]
Remove(table, key) == [table EXCEPT ![key] = PyNone]
Upsert(table, key, updates) ==
    [table EXCEPT ![key] = IF @ = PyNone THEN updates @@ [pk |-> key] ELSE updates @@ @]

RECURSIVE PutAll(_, _, _)
PutAll(table, keys, name) ==
    IF keys = <<>> THEN table
    ELSE PutAll(Put(table, Item(Head(keys), name)), Tail(keys), name)

RECURSIVE RemoveAll(_, _)
RemoveAll(table, keys) ==
    IF keys = <<>> THEN table ELSE RemoveAll(Remove(table, Head(keys)), Tail(keys))

Metrics(d, core) == [duration_ms |-> d, retry_count |-> core.retry_count]

Returned(value, items, metrics) ==
    [kind |-> "return", error |-> "", value |-> value, items |-> items,
     metrics |-> metrics]

Raised(error, retry_count) ==
    [kind |-> "raise", error |-> error, value |-> PyNone, items |-> <<>>,
     metrics |-> [duration_ms |-> 0, retry_count |-> retry_count]]

\* DictWithMetrics(data, metrics)
DictWithMetrics(data, metrics) == [data |-> data, metrics |-> metrics]

\* DynamoDBClient._acquire_rcu
acquire_rcu(rcu) == IF rate_limit THEN <<Ev("acquire_rcu", "", rcu)>> ELSE <<>>

\* An acquisition that does not look at whether a limiter is configured
acquire_wcu_Unconditional(wcu) == <<Ev("acquire_wcu", "", wcu)>>

\* DynamoDBClient._acquire_wcu
acquire_wcu(wcu) == IF rate_limit THEN <<Ev("acquire_wcu", "", wcu)>> ELSE <<>>

\* DynamoDBClient._on_throttle (no method of the client calls it)
on_throttle == IF rate_limit THEN <<Ev("on_throttle", "", 0)>> ELSE <<>>

\* The one table the calls are made on
Table == "users"

\* _log_operation(op, table, metrics.duration_ms, consumed_rcu=... or
\* consumed_wcu=...): the record written
LogRecord(op, duration_ms) ==
    [ev |-> "log_operation", op |-> op, n |-> duration_ms, table |-> Table,
     consumed |-> IF op = "get_item" THEN "consumed_rcu" ELSE "consumed_wcu"]

\* A warning already at the threshold
LogOperation_WarnsAtThreshold(op, duration_ms) ==
    <<LogRecord(op, duration_ms)>> \o
    (IF duration_ms >= SlowQueryThresholdMs
     THEN <<Ev("log_warning", op, duration_ms)>> ELSE <<>>)

\* _log_operation(...); if metrics.duration_ms > _SLOW_QUERY_THRESHOLD_MS: _log_warning(...)
LogOperation(op, duration_ms) ==
    <<LogRecord(op, duration_ms)>> \o
    (IF duration_ms > SlowQueryThresholdMs
     THEN <<Ev("log_warning", op, duration_ms)>> ELSE <<>>)

Call(op, events, result) == [op |-> op, events |-> events, result |-> result]

\* A wrapper that dispatches the core call again after a failure
put_item_RetriesOnError(net, d) ==
    LET core == CoreCall("put_item", net)
        again == CoreCall("put_item", net)
    IN  IF core.outcome = "ok"
        THEN Call("put_item",
                  acquire_wcu(1) \o core.events \o LogOperation("put_item", d),
                  Returned(PyNone, <<>>, Metrics(d, core)))
        ELSE Call("put_item", acquire_wcu(1) \o core.events \o again.events,
                  Raised(again.outcome, again.retry_count))

\* DynamoDBClient.put_item
put_item(net, d) ==
    LET core == CoreCall("put_item", net)
    IN  IF core.outcome = "ok"
        THEN Call("put_item",
                  acquire_wcu(1) \o core.events \o LogOperation("put_item", d),
                  Returned(PyNone, <<>>, Metrics(d, core)))
        ELSE Call("put_item", acquire_wcu(1) \o core.events,
                  Raised(core.outcome, core.retry_count))

\* DynamoDBClient.get_item
get_item(key, net, d) ==
    LET core == CoreCall("get_item", net)
        result == WireItem(key)
    IN  IF core.outcome = "ok"
        THEN Call("get_item",
                  acquire_rcu(1) \o core.events \o LogOperation("get_item", d),
                  IF result = PyNone
                  THEN Returned(PyNone, <<>>, Metrics(d, core))
                  ELSE Returned(DictWithMetrics(result, Metrics(d, core)), <<>>,
                                Metrics(d, core)))
        ELSE Call("get_item", acquire_rcu(1) \o core.events,
                  Raised(core.outcome, core.retry_count))

\* DynamoDBClient.delete_item
delete_item(net, d) ==
    LET core == CoreCall("delete_item", net)
    IN  IF core.outcome = "ok"
        THEN Call("delete_item",
                  acquire_wcu(1) \o core.events \o LogOperation("delete_item", d),
                  Returned(PyNone, <<>>, Metrics(d, core)))
        ELSE Call("delete_item", acquire_wcu(1) \o core.events,
                  Raised(core.outcome, core.retry_count))

\* DynamoDBClient.update_item
update_item(net, d) ==
    LET core == CoreCall("update_item", net)
    IN  IF core.outcome = "ok"
        THEN Call("update_item",
                  acquire_wcu(1) \o core.events \o LogOperation("update_item", d),
                  Returned(PyNone, <<>>, Metrics(d, core)))
        ELSE Call("update_item", acquire_wcu(1) \o core.events,
                  Raised(core.outcome, core.retry_count))

\* A cost that forgets the deletes
BatchWriteCost_PutsOnly(put_items, delete_keys) == Len(put_items)

\* put_count + delete_count
BatchWriteCost(put_items, delete_keys) == Len(put_items) + Len(delete_keys)

\* DynamoDBClient.batch_write
batch_write(put_items, delete_keys, net) ==
    LET core == CoreCall("batch_write", net)
    IN  Call("batch_write",
             acquire_wcu(BatchWriteCost(put_items, delete_keys)) \o core.events,
             IF core.outcome = "ok"
             THEN Returned(PyNone, <<>>, Metrics(0, core))
             ELSE Raised(core.outcome, core.retry_count))

\* The items the table holds for the keys asked
FoundItems(keys) ==
    LET held == SelectSeq(keys, LAMBDA k : store[k] # PyNone)
    IN  [j \in 1..Len(held) |-> WireItem(held[j])]

\* DynamoDBClient.batch_get
batch_get(keys, net) ==
    LET core == CoreCall("batch_get", net)
    IN  Call("batch_get",
             acquire_rcu(Len(keys)) \o core.events,
             IF core.outcome = "ok"
             THEN Returned(PyNone, FoundItems(keys), Metrics(0, core))
             ELSE Raised(core.outcome, core.retry_count))

\* A wrapper that sends the transaction again after a timeout
transact_write_RetriesOnTimeout(net) ==
    LET core == CoreCall("transact_write", net)
        again == CoreCall("transact_write", DropFirst(net, 1))
    IN  IF core.outcome = "TimeoutError"
        THEN Call("transact_write", core.events \o again.events,
                  IF again.outcome = "ok"
                  THEN Returned(PyNone, <<>>, Metrics(0, again))
                  ELSE Raised(again.outcome, again.retry_count))
        ELSE Call("transact_write", core.events,
                  IF core.outcome = "ok"
                  THEN Returned(PyNone, <<>>, Metrics(0, core))
                  ELSE Raised(core.outcome, core.retry_count))

\* DynamoDBClient.transact_write
transact_write(net) ==
    LET core == CoreCall("transact_write", net)
    IN  Call("transact_write", core.events,
             IF core.outcome = "ok"
             THEN Returned(PyNone, <<>>, Metrics(0, core))
             ELSE Raised(core.outcome, core.retry_count))

\* DynamoDBClient.async_get_item
async_get_item(acquired, key, net, d) ==
    LET core == CoreCall("async_get_item", net)
        result == [item |-> WireItem(key), metrics |-> Metrics(d, core)]
    IN  IF core.outcome = "ok"
        THEN Call("async_get_item",
                  acquired \o core.events \o LogOperation("get_item", d),
                  IF result.item = PyNone
                  THEN Returned(PyNone, <<>>, result.metrics)
                  ELSE Returned(DictWithMetrics(result.item, result.metrics), <<>>,
                                result.metrics))
        ELSE Call("async_get_item", acquired \o core.events,
                  Raised(core.outcome, core.retry_count))

\* DynamoDBClient.async_put_item
async_put_item(acquired, net, d) ==
    LET core == CoreCall("async_put_item", net)
    IN  IF core.outcome = "ok"
        THEN Call("async_put_item",
                  acquired \o core.events \o LogOperation("put_item", d),
                  Returned(PyNone, <<>>, Metrics(d, core)))
        ELSE Call("async_put_item", acquired \o core.events,
                  Raised(core.outcome, core.retry_count))

\* DynamoDBClient.async_delete_item
async_delete_item(acquired, net, d) ==
    LET core == CoreCall("async_delete_item", net)
    IN  IF core.outcome = "ok"
        THEN Call("async_delete_item",
                  acquired \o core.events \o LogOperation("delete_item", d),
                  Returned(PyNone, <<>>, Metrics(d, core)))
        ELSE Call("async_delete_item", acquired \o core.events,
                  Raised(core.outcome, core.retry_count))

\* DynamoDBClient.async_update_item
async_update_item(acquired, net, d) ==
    LET core == CoreCall("async_update_item", net)
    IN  IF core.outcome = "ok"
        THEN Call("async_update_item",
                  acquired \o core.events \o LogOperation("update_item", d),
                  Returned(PyNone, <<>>, Metrics(d, core)))
        ELSE Call("async_update_item", acquired \o core.events,
                  Raised(core.outcome, core.retry_count))

(***************************************************************************)
(* Model classes and their client handle                                   *)
(***************************************************************************)
Classes == {"Model", "User", "Admin"}
Clients == {"c1", "c2"}

\* No _get_client() call made yet
NoAsk == [cls |-> "", ret |-> "", fresh |-> FALSE, default |-> "None"]

\* class User(Model), class Admin(User)
Parent(cls) ==
    CASE cls = "Admin" -> "User"
      [] cls = "User"  -> "Model"
      [] OTHER         -> "object"

\* Class attribute lookup along the bases: the nearest class that sets it
RECURSIVE Lookup(_, _)
Lookup(attr, cls) ==
    IF cls = "object" THEN "unset"
    ELSE IF attr[cls] # "unset" THEN attr[cls]
    ELSE Lookup(attr, Parent(cls))

\* A _get_client that reads the configuration again on every call
get_client_NoCache(cls) ==
    LET configured == Lookup(config_client, cls)
    IN  IF configured \notin {"unset", "None"}
        THEN [ret |-> configured, cache |-> [client_instance EXCEPT ![cls] = configured]]
        ELSE IF default_client # "None"
        THEN [ret |-> default_client,
              cache |-> [client_instance EXCEPT ![cls] = default_client]]
        ELSE [ret |-> "ValueError", cache |-> client_instance]

\* Model._get_client: the client returned (or ValueError) and the class
\* attributes after the call
get_client(cls) ==
    LET cached == Lookup(client_instance, cls)
        configured == Lookup(config_client, cls)
    IN  IF cached # "None"
        THEN [ret |-> cached, cache |-> client_instance]
        ELSE IF configured \notin {"unset", "None"}
        THEN [ret |-> configured, cache |-> [client_instance EXCEPT ![cls] = configured]]
        ELSE IF default_client # "None"
        THEN [ret |-> default_client,
              cache |-> [client_instance EXCEPT ![cls] = default_client]]
        ELSE [ret |-> "ValueError", cache |-> client_instance]

\* The keyword parameters DynamoDBClient.get_item declares besides table, key
GetItemKeywords == {}

\* Model.get once the client is resolved: client.get_item(table, keys,
\* consistent_read=...), from_dict and the after_load hooks
model_get(key, net, d) ==
    IF ~({"consistent_read"} \subseteq GetItemKeywords)
    THEN Call("Model.get", <<>>, Raised("TypeError", 0))
    ELSE LET c == get_item(key, net, d)
         IN  IF c.result.kind = "raise" \/ c.result.value = PyNone
             THEN Call("Model.get", c.events, c.result)
             ELSE Call("Model.get",
                       c.events \o (IF skip_hooks_cfg THEN <<>>
                                    ELSE <<Ev("after_load", "Model.get", 0)>>),
                       Returned(c.result.value.data, <<>>, c.result.metrics))

\* The value of an optional boolean argument: not passed, True or False
OptionalBool == {"None", "True", "False"}

\* client.get_item(table, key, consistent_read=...): the call is bound to the
\* parameters get_item declares before its body runs
get_item_consistent(key, consistent_read, net, d) ==
    IF "consistent_read" \notin GetItemKeywords
    THEN Call("get_item(consistent_read)", <<>>, Raised("TypeError", 0))
    ELSE LET c == get_item(key, net, d)
         IN  Call("get_item(consistent_read)", c.events, c.result)

\* await client.async_get_item(table, key, consistent_read=...)
async_get_item_consistent(key, consistent_read, net, d) ==
    IF "consistent_read" \notin GetItemKeywords
    THEN Call("async_get_item(consistent_read)", <<>>, Raised("TypeError", 0))
    ELSE LET c == async_get_item(acquire_rcu(1), key, net, d)
         IN  Call("async_get_item(consistent_read)", c.events, c.result)

(***************************************************************************)
(* Client operations as steps                                              *)
(***************************************************************************)
\* Lists of keys that name each key once (a batch that names a key twice is
\* rejected by the service before anything is read or written)
BatchLists ==
    { l \in UNION { [1..n -> Keys] : n \in 0..MaxBatch } :
         \A i, j \in DOMAIN l : i # j => l[i] # l[j] }

\* The name every item of a batch or a transaction carries
BatchName == "b"

NoNet == [i \in 1..(MaxRetries + 1) |-> "ok"]

Done(c, key, put_items, delete_keys, keys, net) ==
    [call |-> c, key |-> key, put_items |-> put_items, delete_keys |-> delete_keys,
     keys |-> keys, net |-> net, consistent_read |-> "None", item |-> PyNone]

\* A finished get that was given consistent_read
DoneConsistent(c, key, consistent_read, net) ==
    [Done(c, key, <<>>, <<>>, <<>>, net) EXCEPT !.consistent_read = consistent_read]

\* A finished put or update of one item
DoneWrite(c, item, net) ==
    [Done(c, item.pk, <<>>, <<>>, <<>>, net) EXCEPT !.item = item]

NoCall == Done(Call("none", <<>>, Returned(PyNone, <<>>, [duration_ms |-> 0, retry_count |-> 0])),
               "", <<>>, <<>>, <<>>, NoNet)

\* What every attempt of a call on a table that does not exist meets
NoTable == [i \in 1..(MaxRetries + 1) |-> "TableNotFoundError"]

\* A call on a healthy network that takes the threshold duration
Plain(net, d) == net = NoNet /\ d = SlowQueryThresholdMs

\* A behaviour is one call that meets any network, or up to MaxCalls plain
\* calls one after or beside the other: the networks and durations a call
\* that starts now, or an async call that resumes now, may meet
Alone == last = NoCall /\ ~upd.called /\ Len(pending) + Len(awaiting) = 1
NetsNow == IF Table \notin tables THEN {NoTable} ELSE IF calls = 0 THEN Nets ELSE {NoNet}
DurationsNow == IF calls = 0 THEN DurationsMs ELSE {SlowQueryThresholdMs}
NetsResumed == IF Table \notin tables THEN {NoTable} ELSE IF Alone THEN Nets ELSE {NoNet}
DurationsResumed == IF Alone THEN DurationsMs ELSE {SlowQueryThresholdMs}
MayCall == calls < MaxCalls
CallsStarted(net, d) == IF Plain(net, d) THEN calls + 1 ELSE MaxCalls
CallsEnded(net, d) == IF Plain(net, d) THEN calls ELSE MaxCalls

\* What a write leaves in the table: the service carries it out when the
\* call succeeds, and not at all when it fails
Written(c, table) == IF c.result.kind = "return" THEN table ELSE store

PutItem ==
    /\ \E key \in Keys, name \in Names, net \in NetsNow, d \in DurationsNow :
          LET c == put_item(net, d)
          IN  /\ MayCall
              /\ last' = DoneWrite(c, Item(key, name), net)
              /\ store' = Written(c, Put(store, Item(key, name)))
              /\ calls' = CallsStarted(net, d)
    /\ UNCHANGED <<rate_limit, tables, pending>>
    /\ UNCHANGED not_cvars

GetItem ==
    /\ \E key \in Keys, net \in NetsNow, d \in DurationsNow :
          /\ MayCall
          /\ last' = Done(get_item(key, net, d), key, <<>>, <<>>, <<>>, net)
          /\ calls' = CallsStarted(net, d)
    /\ UNCHANGED <<rate_limit, tables, store, pending>>
    /\ UNCHANGED not_cvars

DeleteItem ==
    /\ \E key \in Keys, net \in NetsNow, d \in DurationsNow :
          LET c == delete_item(net, d)
          IN  /\ MayCall
              /\ last' = Done(c, key, <<>>, <<>>, <<>>, net)
              /\ store' = Written(c, Remove(store, key))
              /\ calls' = CallsStarted(net, d)
    /\ UNCHANGED <<rate_limit, tables, pending>>
    /\ UNCHANGED not_cvars

UpdateItem ==
    /\ \E key \in Keys, name \in Names, net \in NetsNow, d \in DurationsNow :
          LET c == update_item(net, d)
          IN  /\ MayCall
              /\ last' = DoneWrite(c, Item(key, name), net)
              /\ store' = Written(c, Upsert(store, key, [name |-> name]))
              /\ calls' = CallsStarted(net, d)
    /\ UNCHANGED <<rate_limit, tables, pending>>
    /\ UNCHANGED not_cvars

BatchWrite ==
    /\ \E put_items \in BatchLists, delete_keys \in BatchLists, net \in NetsNow :
          LET c == batch_write(put_items, delete_keys, net)
          IN  /\ \A i \in DOMAIN put_items, j \in DOMAIN delete_keys :
                    put_items[i] # delete_keys[j]
              /\ MayCall
              /\ last' = Done(c, "", put_items, delete_keys, <<>>, net)
              /\ store' = Written(c, RemoveAll(PutAll(store, put_items, BatchName),
                                               delete_keys))
              /\ calls' = CallsStarted(net, SlowQueryThresholdMs)
    /\ UNCHANGED <<rate_limit, tables, pending>>
    /\ UNCHANGED not_cvars

BatchGet ==
    /\ \E keys \in BatchLists, net \in NetsNow :
          /\ MayCall
          /\ last' = Done(batch_get(keys, net), "", <<>>, <<>>, keys, net)
          /\ calls' = CallsStarted(net, SlowQueryThresholdMs)
    /\ UNCHANGED <<rate_limit, tables, store, pending>>
    /\ UNCHANGED not_cvars

\* The operations of the transaction are puts of put_items
TransactWrite ==
    /\ \E put_items \in BatchLists, net \in NetsNow :
          LET c == transact_write(net)
          IN  /\ MayCall
              /\ last' = Done(c, "", put_items, <<>>, <<>>, net)
              /\ store' = Written(c, PutAll(store, put_items, BatchName))
              /\ calls' = CallsStarted(net, SlowQueryThresholdMs)
    /\ UNCHANGED <<rate_limit, tables, pending>>
    /\ UNCHANGED not_cvars

\* An async client call suspended at "await self._client.async_...": its
\* arguments and what it has done so far
Suspended(op, key, item, events) ==
    [op |-> op, key |-> key, item |-> item, events |-> events]

\* pending without its i-th call
Resumed(i) == SubSeq(pending, 1, i - 1) \o SubSeq(pending, i + 1, Len(pending))

\* Up to the await: the capacity is acquired and the coroutine is suspended
Suspend(call) ==
    /\ calls < MaxCalls
    /\ pending' = Append(pending, call)
    /\ calls' = calls + 1
    /\ UNCHANGED <<rate_limit, tables, store, last>>
    /\ UNCHANGED not_cvars

AsyncGetItem ==
    \E key \in Keys : Suspend(Suspended("async_get_item", key, PyNone, acquire_rcu(1)))

AsyncPutItem ==
    \E key \in Keys, name \in Names :
        Suspend(Suspended("async_put_item", key, Item(key, name), acquire_wcu(1)))

AsyncDeleteItem ==
    \E key \in Keys : Suspend(Suspended("async_delete_item", key, PyNone, acquire_wcu(1)))

AsyncUpdateItem ==
    \E key \in Keys, name \in Names :
        Suspend(Suspended("async_update_item", key, Item(key, name), acquire_wcu(1)))

\* From the await on: the core answers, the operation is logged and the
\* call returns or raises
AsyncGetItemResumed ==
    /\ \E i \in DOMAIN pending, net \in NetsResumed, d \in DurationsResumed :
          /\ pending[i].op = "async_get_item"
          /\ last' = Done(async_get_item(pending[i].events, pending[i].key, net, d),
                          pending[i].key, <<>>, <<>>, <<>>, net)
          /\ pending' = Resumed(i)
          /\ calls' = CallsEnded(net, d)
    /\ UNCHANGED <<rate_limit, tables, store>>
    /\ UNCHANGED not_cvars

AsyncPutItemResumed ==
    /\ \E i \in DOMAIN pending, net \in NetsResumed, d \in DurationsResumed :
          LET c == async_put_item(pending[i].events, net, d)
          IN  /\ pending[i].op = "async_put_item"
                  /\ last' = DoneWrite(c, pending[i].item, net)
              /\ store' = Written(c, Put(store, pending[i].item))
              /\ pending' = Resumed(i)
              /\ calls' = CallsEnded(net, d)
    /\ UNCHANGED <<rate_limit, tables>>
    /\ UNCHANGED not_cvars

AsyncDeleteItemResumed ==
    /\ \E i \in DOMAIN pending, net \in NetsResumed, d \in DurationsResumed :
          LET c == async_delete_item(pending[i].events, net, d)
          IN  /\ pending[i].op = "async_delete_item"
                  /\ last' = Done(c, pending[i].key, <<>>, <<>>, <<>>, net)
              /\ store' = Written(c, Remove(store, pending[i].key))
              /\ pending' = Resumed(i)
              /\ calls' = CallsEnded(net, d)
    /\ UNCHANGED <<rate_limit, tables>>
    /\ UNCHANGED not_cvars

AsyncUpdateItemResumed ==
    /\ \E i \in DOMAIN pending, net \in NetsResumed, d \in DurationsResumed :
          LET c == async_update_item(pending[i].events, net, d)
          IN  /\ pending[i].op = "async_update_item"
                  /\ last' = DoneWrite(c, pending[i].item, net)
              /\ store' = Written(c, Upsert(store, pending[i].key,
                                            [name |-> pending[i].item.name]))
              /\ pending' = Resumed(i)
              /\ calls' = CallsEnded(net, d)
    /\ UNCHANGED <<rate_limit, tables>>
    /\ UNCHANGED not_cvars

\* Model.get on class cls: _get_client, then the read
ModelGet ==
    /\ \E cls \in Classes \ {"Model"}, key \in Keys, net \in NetsNow, d \in DurationsNow,
          consistent_read \in OptionalBool :
          LET gc == get_client(cls)
          IN  /\ MayCall
              /\ client_instance' = gc.cache
              /\ last' = IF gc.ret = "ValueError"
                         THEN DoneConsistent(Call("Model.get", <<>>, Raised("ValueError", 0)),
                                             key, consistent_read, net)
                         ELSE DoneConsistent(model_get(key, net, d), key,
                                             consistent_read, net)
              /\ calls' = CallsStarted(net, d)
    /\ UNCHANGED <<rate_limit, tables, store, pending, qvars, config_client, skip_hooks_cfg,
                   default_client, first_ret, last_ret, asked, uvars, rvars, kvars, avars>>

GetItemConsistent ==
    /\ \E key \in Keys, consistent_read \in {"True", "False"} :
          last' = DoneConsistent(get_item_consistent(key, consistent_read, NoNet,
                                                     SlowQueryThresholdMs),
                                 key, consistent_read, NoNet)
    /\ MayCall
    /\ calls' = CallsStarted(NoNet, SlowQueryThresholdMs)
    /\ UNCHANGED <<rate_limit, tables, store, pending>>
    /\ UNCHANGED not_cvars

AsyncGetItemConsistent ==
    /\ \E key \in Keys, consistent_read \in {"True", "False"} :
          last' = DoneConsistent(async_get_item_consistent(key, consistent_read, NoNet,
                                                           SlowQueryThresholdMs),
                                 key, consistent_read, NoNet)
    /\ MayCall
    /\ calls' = CallsStarted(NoNet, SlowQueryThresholdMs)
    /\ UNCHANGED <<rate_limit, tables, store, pending>>
    /\ UNCHANGED not_cvars

\* DynamoDBClient.create_table: the core creates the table, or raises when a
\* table of that name exists
create_table ==
    Call("create_table", <<Ev("call", "create_table", 0)>>,
         IF Table \in tables THEN Raised("TableAlreadyExistsError", 0)
         ELSE Returned(PyNone, <<>>, [duration_ms |-> 0, retry_count |-> 0]))

\* DynamoDBClient.table_exists
table_exists ==
    Call("table_exists", <<Ev("call", "table_exists", 0)>>,
         Returned([bool |-> Table \in tables], <<>>,
                  [duration_ms |-> 0, retry_count |-> 0]))

\* DynamoDBClient.delete_table: the core deletes the table and its items, or
\* raises when there is no table of that name
delete_table ==
    Call("delete_table", <<Ev("call", "delete_table", 0)>>,
         IF Table \in tables
         THEN Returned(PyNone, <<>>, [duration_ms |-> 0, retry_count |-> 0])
         ELSE Raised("TableNotFoundError", 0))

CreateTable ==
    /\ MayCall
    /\ last' = Done(create_table, "", <<>>, <<>>, <<>>, NoNet)
    /\ tables' = tables \cup {Table}
    /\ calls' = calls + 1
    /\ UNCHANGED <<rate_limit, store, pending>>
    /\ UNCHANGED not_cvars

TableExists ==
    /\ MayCall
    /\ last' = Done(table_exists, "", <<>>, <<>>, <<>>, NoNet)
    /\ calls' = calls + 1
    /\ UNCHANGED <<rate_limit, tables, store, pending>>
    /\ UNCHANGED not_cvars

DeleteTable ==
    /\ MayCall
    /\ last' = Done(delete_table, "", <<>>, <<>>, <<>>, NoNet)
    /\ tables' = tables \ {Table}
    /\ store' = IF Table \in tables THEN [k \in Keys |-> PyNone] ELSE store
    /\ calls' = calls + 1
    /\ UNCHANGED <<rate_limit, pending>>
    /\ UNCHANGED not_cvars

ClassInit ==
    /\ client_instance = [c \in Classes |-> IF c = "Model" THEN "None" ELSE "unset"]
    /\ config_client \in { f \in [Classes -> {"unset", "None"} \cup Clients] :
                              /\ f["Model"] = "unset"
                              /\ f["User"] # "unset" }
    /\ skip_hooks_cfg \in BOOLEAN
    /\ default_client \in {"None"} \cup Clients
    /\ first_ret = [c \in Classes |-> ""]
    /\ last_ret = [c \in Classes |-> ""]
    /\ asked = NoAsk

\* A client with or without a rate limiter, on a table that holds an item or
\* none under each key
CInit ==
    /\ rate_limit \in BOOLEAN
    /\ tables = {Table}
    /\ \E held \in SUBSET Keys :
          store = [k \in Keys |-> IF k \in held THEN Item(k, "a") ELSE PyNone]
    /\ last = NoCall
    /\ calls = 0
    /\ pending = <<>>

CNext ==
    \/ PutItem \/ GetItem \/ DeleteItem \/ UpdateItem
    \/ BatchWrite \/ BatchGet \/ TransactWrite
    \/ AsyncGetItem \/ AsyncPutItem \/ AsyncDeleteItem \/ AsyncUpdateItem
    \/ AsyncGetItemResumed \/ AsyncPutItemResumed \/ AsyncDeleteItemResumed
    \/ AsyncUpdateItemResumed
    \/ ModelGet \/ GetItemConsistent \/ AsyncGetItemConsistent
    \/ CreateTable \/ TableExists \/ DeleteTable

(***************************************************************************)
(* Model._get_client and the default-client registry as steps              *)
(***************************************************************************)
\* cls._get_client()
GetClient ==
    /\ \E cls \in Classes :
          LET gc == get_client(cls)
          IN  /\ client_instance' = gc.cache
              /\ asked' = [cls |-> cls, ret |-> gc.ret, fresh |-> first_ret[cls] = "",
                           default |-> default_client]
              /\ IF gc.ret = "ValueError"
                 THEN UNCHANGED <<first_ret, last_ret>>
                 ELSE /\ last_ret' = [last_ret EXCEPT ![cls] = gc.ret]
                      /\ first_ret' = [first_ret EXCEPT ![cls] = IF @ = "" THEN gc.ret ELSE @]
    /\ UNCHANGED <<config_client, skip_hooks_cfg, default_client>>
    /\ UNCHANGED not_mvars

\* config.set_default_client
SetDefaultClient ==
    /\ \E c \in Clients : default_client' = c
    /\ UNCHANGED <<client_instance, config_client, skip_hooks_cfg, first_ret, last_ret,
                   asked>>
    /\ UNCHANGED not_mvars

\* config.clear_default_client
ClearDefaultClient ==
    /\ default_client' = "None"
    /\ UNCHANGED <<client_instance, config_client, skip_hooks_cfg, first_ret, last_ret,
                   asked>>
    /\ UNCHANGED not_mvars

MNext == GetClient \/ SetDefaultClient \/ ClearDefaultClient

(***************************************************************************)
(* Model.update / Model.async_update                                       *)
(*                                                                         *)
(* An atomic operation or a comparison names one attribute and carries one *)
(* value.  A names map is {attribute: placeholder}; the maps sent on the   *)
(* wire are {placeholder: attribute} and {placeholder: value}.  A name     *)
(* placeholder n stands for "#n<n>", a value placeholder n for ":v<n>".    *)
(***************************************************************************)
Declared == {"pk", "a", "b"}          \* cls._attributes
UAttrs == {"a", "b"}
KwNames == {"a", "b", "zz"}
Vals == {1, 2}
Ops == [attr : UAttrs, value : Vals]
OpLists(n) == UNION { [1..k -> Ops] : k \in 0..n }
NoCondition == << >>
Conditions == OpLists(MaxCond)
KwargsLists ==
    { s \in UNION { [1..k -> [attr : KwNames, value : Vals]] : k \in 0..MaxKwargs } :
         \A i, j \in DOMAIN s : i # j => s[i].attr # s[j].attr }

\* The serializers write an attribute as its placeholder in the names map,
\* adding the next free one for an attribute the map does not hold yet, and
\* a value as the next free placeholder of the values map.
SerializeOne(st, op) ==
    LET known == op.attr \in DOMAIN st.names
        np == IF known THEN st.names[op.attr] ELSE Cardinality(DOMAIN st.names)
        vp == Cardinality(DOMAIN st.values)
    IN  [uses   |-> Append(st.uses, [np |-> np, attr |-> op.attr,
                                     vp |-> vp, value |-> op.value]),
         names  |-> IF known THEN st.names ELSE (op.attr :> np) @@ st.names,
         values |-> (vp :> op.value) @@ st.values]

RECURSIVE SerializeOps(_, _)
SerializeOps(ops, st) ==
    IF ops = << >> THEN st ELSE SerializeOps(Tail(ops), SerializeOne(st, Head(ops)))

\* serialize_atomic(atomic) -> (update_expr, names, values)
serialize_atomic(atomic) ==
    SerializeOps(atomic, [uses |-> << >>, names |-> << >>, values |-> << >>])

\* condition.serialize(names, values) -> cond_expr, filling names and values
condition_serialize(condition, names, values) ==
    SerializeOps(condition, [uses |-> << >>, names |-> names, values |-> values])

\* {v: k for k, v in names.items()}
Invert(names) ==
    [p \in { names[a] : a \in DOMAIN names } |->
        CHOOSE a \in DOMAIN names : names[a] = p]

\* {**left, **right}
Merge(left, right) == right @@ left

Request(update_uses, cond_uses, names, values, updates) ==
    [update_uses |-> update_uses, cond_uses |-> cond_uses, names |-> names,
     values |-> values, updates |-> updates]

NoRequest == Request(<< >>, << >>, << >>, << >>, << >>)

\* An atomic branch that serializes the condition into an empty names map
AtomicRequest_FreshCondNames(atomic, condition) ==
    LET a == serialize_atomic(atomic)
        c == condition_serialize(condition, << >>, a.values)
    IN  IF condition # NoCondition
        THEN Request(a.uses, c.uses, Merge(Invert(a.names), Invert(c.names)),
                     c.values, << >>)
        ELSE Request(a.uses, << >>, Invert(a.names), a.values, << >>)

\* if atomic: ... client.update_item(update_expression=..., ...)
AtomicRequest(atomic, condition) ==
    LET a == serialize_atomic(atomic)
        c == condition_serialize(condition, a.names, a.values)
    IN  IF condition # NoCondition
        THEN Request(a.uses, c.uses, Merge(Invert(a.names), Invert(c.names)),
                     c.values, << >>)
        ELSE Request(a.uses, << >>, Invert(a.names), a.values, << >>)

\* elif kwargs: ... client.update_item(updates=kwargs, ...)
KwargsRequest(kwargs, condition) ==
    LET c == condition_serialize(condition, << >>, << >>)
    IN  IF condition # NoCondition
        THEN Request(<< >>, c.uses, Invert(c.names), c.values, kwargs)
        ELSE Request(<< >>, << >>, << >>, << >>, kwargs)

\* for attr_name, value in kwargs.items(): check, then setattr
RECURSIVE SetAttrs(_, _)
SetAttrs(obj, kwargs) ==
    IF kwargs = << >> THEN [inst |-> obj, error |-> ""]
    ELSE IF Head(kwargs).attr \notin Declared
    THEN [inst |-> obj, error |-> "ValueError"]
    ELSE SetAttrs([obj EXCEPT ![Head(kwargs).attr] = Head(kwargs).value], Tail(kwargs))

\* A decision in which the model configuration overrides the argument
should_skip_hooks_ConfigWins(skip_hooks) ==
    IF skip_hooks_cfg THEN TRUE ELSE skip_hooks = "True"

\* Model._should_skip_hooks
should_skip_hooks(skip_hooks) ==
    IF skip_hooks # "None" THEN skip_hooks = "True" ELSE skip_hooks_cfg

\* The hooks registered for each hook type, in registration order
HookNames == <<"h1", "h2">>

\* Which hook raises when it is run, if any
NoRaise == [hook_type |-> "", i |-> 0]
BeforeHook(op) == CASE op \in {"save", "async_save"} -> "before_save"
                    [] op \in {"delete", "async_delete"} -> "before_delete"
                    [] OTHER -> "before_update"
AfterHook(op) == CASE op \in {"save", "async_save"} -> "after_save"
                   [] op \in {"delete", "async_delete"} -> "after_delete"
                   [] OTHER -> "after_update"
Raisings(op) == {NoRaise} \cup [hook_type : {BeforeHook(op), AfterHook(op)},
                                i : DOMAIN HookNames]

\* if not skip: self._run_hooks(hook_type) -- the hooks run, up to and
\* including one that raises, and the exception that leaves the loop
run_hooks(hook_type, skip, raising) ==
    LET stops == raising.hook_type = hook_type
        n == IF stops THEN raising.i ELSE Len(HookNames)
    IN  IF skip THEN [events |-> << >>, error |-> ""]
        ELSE [events |-> [j \in 1..n |-> Ev("hook", hook_type, j)],
              error |-> IF stops THEN "HookError" ELSE ""]

\* How a save, delete or update call ended: the instance, what happened in
\* order, the request, whether the client method was called, whether
\* _get_client() was reached, and the exception raised ("" when none)
Updated(obj, events, req, sent, resolved, error) ==
    [inst |-> obj, events |-> events, req |-> req, sent |-> sent,
     resolved |-> resolved, error |-> error]

\* After hooks that run whether or not the client method raised
AfterWire_IgnoresFailure(obj, before_events, req, wire, after) ==
    Updated(obj, before_events \o wire.events \o after.events, req, TRUE, TRUE,
            IF wire.result.kind = "return" THEN after.error ELSE wire.result.error)

\* client.<method>(...), then: if not skip: self._run_hooks(AFTER_...)
AfterWire(obj, before_events, req, wire, after) ==
    IF wire.result.kind = "return"
    THEN Updated(obj, before_events \o wire.events \o after.events, req, TRUE, TRUE,
                 after.error)
    ELSE Updated(obj, before_events \o wire.events, req, TRUE, TRUE, wire.result.error)

\* Model.update and Model.async_update (wire: the client method they call)
model_update(obj, atomic, condition, skip_hooks, kwargs, wire, raising) ==
    LET skip == should_skip_hooks(skip_hooks)
        before == run_hooks("before_update", skip, raising)
        after == run_hooks("after_update", skip, raising)
        set == SetAttrs(obj, kwargs)
    IN  IF before.error # ""
        THEN Updated(obj, before.events, NoRequest, FALSE, FALSE, before.error)
        ELSE IF get_client("User").ret = "ValueError"
        THEN Updated(obj, before.events, NoRequest, FALSE, TRUE, "ValueError")
        ELSE IF atomic # << >>
        THEN AfterWire(obj, before.events, AtomicRequest(atomic, condition), wire, after)
        ELSE IF kwargs # << >>
        THEN IF set.error # ""
             THEN Updated(set.inst, before.events, NoRequest, FALSE, TRUE, set.error)
             ELSE AfterWire(set.inst, before.events, KwargsRequest(kwargs, condition),
                            wire, after)
        ELSE Updated(obj, before.events \o after.events, NoRequest, FALSE, TRUE,
                     after.error)

\* condition.serialize({}, {}) and the maps passed to put_item / delete_item
ConditionRequest(condition) == KwargsRequest(<< >>, condition)

\* model_config.max_size: not set, or a number of bytes; the instance's
\* calculate_size().bytes
NoMaxSize == {}
MaxSizes == {NoMaxSize} \cup { {n} : n \in 1..MaxItemSize }
ItemSizes == 1..MaxItemSize
Sized(max_size, size) == [max_size |-> max_size, size |-> size]
NotSized == Sized(NoMaxSize, 1)

\* A size check that also rejects an item of exactly max_size bytes
ItemTooLarge_AtLimit(max_size, size) == \E m \in max_size : size >= m

\* if max_size is not None: ... if size.bytes > max_size
ItemTooLarge(max_size, size) == \E m \in max_size : size > m

\* Model.save and Model.async_save.  too_large: model_config.max_size is set
\* and the item is larger.  The instance has no auto-generated attribute.
model_save(obj, condition, skip_hooks, too_large, wire, raising) ==
    LET skip == should_skip_hooks(skip_hooks)
        before == run_hooks("before_save", skip, raising)
        after == run_hooks("after_save", skip, raising)
    IN  IF before.error # ""
        THEN Updated(obj, before.events, NoRequest, FALSE, FALSE, before.error)
        ELSE IF too_large
        THEN Updated(obj, before.events, NoRequest, FALSE, FALSE, "ItemTooLargeError")
        ELSE IF get_client("User").ret = "ValueError"
        THEN Updated(obj, before.events, NoRequest, FALSE, TRUE, "ValueError")
        ELSE AfterWire(obj, before.events, ConditionRequest(condition), wire, after)

\* Model.delete and Model.async_delete
model_delete(obj, condition, skip_hooks, wire, raising) ==
    LET skip == should_skip_hooks(skip_hooks)
        before == run_hooks("before_delete", skip, raising)
        after == run_hooks("after_delete", skip, raising)
    IN  IF before.error # ""
        THEN Updated(obj, before.events, NoRequest, FALSE, FALSE, before.error)
        ELSE IF get_client("User").ret = "ValueError"
        THEN Updated(obj, before.events, NoRequest, FALSE, TRUE, "ValueError")
        ELSE AfterWire(obj, before.events, ConditionRequest(condition), wire, after)

SkipArgs == {"None", "True", "False"}
UpdateNets == {NoNet, [i \in 1..(MaxRetries + 1) |-> "ConditionCheckFailedError"]}

\* One finished call on the instance: its arguments, the instance before it
\* and how it ended
Called(op, atomic, condition, kwargs, skip_hooks, too_large, raising, net, obj, out) ==
    [called |-> TRUE, op |-> op, atomic |-> atomic, condition |-> condition,
     kwargs |-> kwargs, skip_hooks |-> skip_hooks, too_large |-> too_large,
     raising |-> raising, net |-> net, before |-> obj, out |-> out]

NoUpdate ==
    [Called("", << >>, << >>, << >>, "None", NotSized, NoRaise, NoNet,
            [pk |-> "k1", a |-> 0, b |-> 0],
            Updated([pk |-> "k1", a |-> 0, b |-> 0], << >>, NoRequest, FALSE, FALSE, ""))
     EXCEPT !.called = FALSE]

\* atomic operations and keywords of one update call
UpdateArgs ==
    { args \in [atomic : OpLists(MaxAtomic), kwargs : KwargsLists] :
         args.atomic = << >> \/ Len(args.kwargs) <= 1 }

\* The client method suspended at its await: the capacity is acquired, the
\* core has not answered
Awaiting(acquired) ==
    Call("await", acquired, [kind |-> "await", error |-> "", value |-> PyNone,
                             items |-> <<>>,
                             metrics |-> [duration_ms |-> 0, retry_count |-> 0]])

\* updates=kwargs as the attribute values sent
KwargsMap(kwargs) ==
    [a \in { kwargs[i].attr : i \in DOMAIN kwargs } |->
        kwargs[CHOOSE i \in DOMAIN kwargs : kwargs[i].attr = a].value]

\* The atomic operations are increments (Attribute.add): the service adds the
\* value to the attribute, which starts from nothing when the item lacks it
RECURSIVE AddAll(_, _)
AddAll(item, atomic) ==
    IF atomic = << >> THEN item
    ELSE LET op == Head(atomic)
             sum == IF op.attr \in DOMAIN item THEN item[op.attr] + op.value
                    ELSE op.value
         IN  AddAll((op.attr :> sum) @@ item, Tail(atomic))

\* What the table holds once the service has carried out the request of a
\* save, a delete or an update (call.out.inst: the instance when the request
\* was built)
Wrote(call, table) ==
    LET pk == call.out.inst.pk
    IN  CASE call.op \in {"save", "async_save"} -> Put(table, call.out.inst)
          [] call.op \in {"delete", "async_delete"} -> Remove(table, pk)
          [] call.atomic # << >> ->
                [table EXCEPT ![pk] = AddAll(IF @ = PyNone THEN [pk |-> pk] ELSE @,
                                             call.atomic)]
          [] OTHER -> Upsert(table, pk, KwargsMap(call.kwargs))

\* A follow-up call: at most one operation or keyword, no condition, hooks
\* as configured and not raising, no size limit
PlainCall(atomic, kwargs, condition, skip_hooks, sized, raising) ==
    /\ Len(atomic) + Len(kwargs) <= 1
    /\ condition = NoCondition
    /\ skip_hooks = "None"
    /\ sized = NotSized
    /\ raising = NoRaise

\* A behaviour is one call of any kind on any network, or up to MaxCalls
\* plain calls on a healthy network, one after or beside the other
MayStart(plain) == calls < MaxCalls /\ (calls = 0 \/ plain)
AfterStart(plain) == IF plain THEN calls + 1 ELSE MaxCalls
Now(any, plain) == IF calls = 0 THEN any ELSE plain
UpdateNetsNow == Now(UpdateNets, {NoNet})
UpdateNetsResumed == IF Alone THEN UpdateNets ELSE {NoNet}
AfterResume(healthy) == IF healthy THEN calls ELSE MaxCalls

\* The arguments of a plain update
PlainArgs == { args \in UpdateArgs : Len(args.atomic) + Len(args.kwargs) <= 1 }

\* The call returns or raises: it is recorded; _get_client() has cached the
\* client if it was reached; the table holds what the request wrote
Finish(call, table) ==
    /\ inst' = call.out.inst
    /\ upd' = call
    /\ store' = table
    /\ client_instance' = IF call.out.resolved THEN get_client("User").cache
                          ELSE client_instance
    /\ UNCHANGED <<rate_limit, tables, last, pending, awaiting, qvars, config_client,
                   skip_hooks_cfg, default_client, first_ret, last_ret, asked, rvars,
                   kvars, avars>>

\* A synchronous call from start to end
Sync(call, wire) ==
    LET plain == PlainCall(call.atomic, call.kwargs, call.condition, call.skip_hooks,
                           call.too_large, call.raising) /\ call.net = NoNet
    IN  /\ MayStart(plain)
        /\ calls' = AfterStart(plain)
        /\ Finish(call, IF call.out.sent /\ wire.result.kind = "return"
                        THEN Wrote(call, store) ELSE store)

\* An async call up to its await, or to its end when it makes no request:
\* the hooks have run, the instance holds the keywords, the request is built
Async(call) ==
    LET plain == PlainCall(call.atomic, call.kwargs, call.condition, call.skip_hooks,
                           call.too_large, call.raising)
    IN  /\ MayStart(plain)
        /\ calls' = AfterStart(plain)
        /\ IF call.out.sent
           THEN /\ inst' = call.out.inst
                /\ awaiting' = Append(awaiting, call)
                /\ client_instance' = get_client("User").cache
                /\ UNCHANGED <<rate_limit, tables, store, last, pending, upd, qvars,
                               config_client, skip_hooks_cfg, default_client,
                               first_ret, last_ret, asked, rvars, kvars, avars>>
           ELSE Finish(call, store)

\* An async call from its await on: the core answers, the client method
\* logs and returns or raises, the after hooks run
AsyncResumed(i, net, wire) ==
    LET call == awaiting[i]
        skip == should_skip_hooks(call.skip_hooks)
        after == run_hooks(AfterHook(call.op), skip, call.raising)
    IN  /\ calls' = AfterResume(net = NoNet)
        /\ upd' = [call EXCEPT !.net = net,
                               !.out = AfterWire(inst, call.out.events, call.out.req,
                                                 wire, after)]
        /\ store' = IF wire.result.kind = "return" THEN Wrote(call, store) ELSE store
        /\ awaiting' = SubSeq(awaiting, 1, i - 1) \o SubSeq(awaiting, i + 1, Len(awaiting))
        /\ UNCHANGED <<rate_limit, tables, last, pending, inst, qvars, mvars, rvars, kvars, avars>>

Update ==
    /\ calls < MaxCalls
    /\ \E net \in UpdateNetsNow, args \in Now(UpdateArgs, PlainArgs), condition \in Now(Conditions, {NoCondition}),
          skip_hooks \in Now(SkipArgs, {"None"}) :
          LET wire == update_item(net, SlowQueryThresholdMs)
          IN  Sync(Called("update", args.atomic, condition, args.kwargs, skip_hooks,
                          NotSized, NoRaise, net, inst,
                          model_update(inst, args.atomic, condition, skip_hooks,
                                       args.kwargs, wire, NoRaise)),
                   wire)

AsyncUpdate ==
    /\ calls < MaxCalls
    /\ \E args \in Now(UpdateArgs, PlainArgs), condition \in Now(Conditions, {NoCondition}), skip_hooks \in Now(SkipArgs, {"None"}) :
          Async(Called("async_update", args.atomic, condition, args.kwargs,
                       skip_hooks, NotSized, NoRaise, NoNet, inst,
                       model_update(inst, args.atomic, condition, skip_hooks,
                                    args.kwargs, Awaiting(acquire_wcu(1)), NoRaise)))

AsyncUpdateResumed ==
    /\ \E i \in DOMAIN awaiting, net \in UpdateNetsResumed :
          /\ awaiting[i].op = "async_update"
          /\ AsyncResumed(i, net, async_update_item(<<>>, net, SlowQueryThresholdMs))

UInit ==
    /\ inst = [pk |-> "k1", a |-> 0, b |-> 0]
    /\ upd = NoUpdate
    /\ awaiting = <<>>

UNext == Update \/ AsyncUpdate \/ AsyncUpdateResumed

(***************************************************************************)
(* Lifecycle of save, delete and update on a class whose hooks may raise   *)
(***************************************************************************)
HookedArgs == { args \in Now(UpdateArgs, PlainArgs) : Len(args.atomic) <= 1 /\ Len(args.kwargs) <= 1 }
HookedConditions == { c \in Conditions : Len(c) <= 1 }

Save ==
    /\ calls < MaxCalls
    /\ \E net \in UpdateNetsNow, condition \in Now(HookedConditions, {NoCondition}), skip_hooks \in Now(SkipArgs, {"None"}),
          max_size \in Now(MaxSizes, {NoMaxSize}), size \in Now(ItemSizes, {1}), raising \in Now(Raisings("save"), {NoRaise}) :
          LET wire == put_item(net, SlowQueryThresholdMs)
          IN  Sync(Called("save", << >>, condition, << >>, skip_hooks,
                          Sized(max_size, size), raising, net, inst,
                          model_save(inst, condition, skip_hooks,
                                     ItemTooLarge(max_size, size), wire, raising)),
                   wire)

AsyncSave ==
    /\ calls < MaxCalls
    /\ \E condition \in Now(HookedConditions, {NoCondition}), skip_hooks \in Now(SkipArgs, {"None"}),
          max_size \in Now(MaxSizes, {NoMaxSize}), size \in Now(ItemSizes, {1}), raising \in Now(Raisings("save"), {NoRaise}) :
          Async(Called("async_save", << >>, condition, << >>, skip_hooks,
                       Sized(max_size, size), raising, NoNet, inst,
                       model_save(inst, condition, skip_hooks,
                                  ItemTooLarge(max_size, size),
                                  Awaiting(acquire_wcu(1)), raising)))

AsyncSaveResumed ==
    /\ \E i \in DOMAIN awaiting, net \in UpdateNetsResumed :
          /\ awaiting[i].op = "async_save"
          /\ AsyncResumed(i, net, async_put_item(<<>>, net, SlowQueryThresholdMs))

Delete ==
    /\ calls < MaxCalls
    /\ \E net \in UpdateNetsNow, condition \in Now(HookedConditions, {NoCondition}), skip_hooks \in Now(SkipArgs, {"None"}),
          raising \in Now(Raisings("delete"), {NoRaise}) :
          LET wire == delete_item(net, SlowQueryThresholdMs)
          IN  Sync(Called("delete", << >>, condition, << >>, skip_hooks, NotSized,
                          raising, net, inst,
                          model_delete(inst, condition, skip_hooks, wire, raising)),
                   wire)

AsyncDelete ==
    /\ calls < MaxCalls
    /\ \E condition \in Now(HookedConditions, {NoCondition}), skip_hooks \in Now(SkipArgs, {"None"}),
          raising \in Now(Raisings("delete"), {NoRaise}) :
          Async(Called("async_delete", << >>, condition, << >>, skip_hooks, NotSized,
                       raising, NoNet, inst,
                       model_delete(inst, condition, skip_hooks,
                                    Awaiting(acquire_wcu(1)), raising)))

AsyncDeleteResumed ==
    /\ \E i \in DOMAIN awaiting, net \in UpdateNetsResumed :
          /\ awaiting[i].op = "async_delete"
          /\ AsyncResumed(i, net, async_delete_item(<<>>, net, SlowQueryThresholdMs))

HookedUpdate ==
    /\ calls < MaxCalls
    /\ \E net \in UpdateNetsNow, args \in Now(HookedArgs, PlainArgs), condition \in Now(HookedConditions, {NoCondition}),
          skip_hooks \in Now(SkipArgs, {"None"}), raising \in Now(Raisings("update"), {NoRaise}) :
          LET wire == update_item(net, SlowQueryThresholdMs)
          IN  Sync(Called("update", args.atomic, condition, args.kwargs, skip_hooks,
                          NotSized, raising, net, inst,
                          model_update(inst, args.atomic, condition, skip_hooks,
                                       args.kwargs, wire, raising)),
                   wire)

AsyncHookedUpdate ==
    /\ calls < MaxCalls
    /\ \E args \in Now(HookedArgs, PlainArgs), condition \in Now(HookedConditions, {NoCondition}),
          skip_hooks \in Now(SkipArgs, {"None"}), raising \in Now(Raisings("update"), {NoRaise}) :
          Async(Called("async_update", args.atomic, condition, args.kwargs,
                       skip_hooks, NotSized, raising, NoNet, inst,
                       model_update(inst, args.atomic, condition, skip_hooks,
                                    args.kwargs, Awaiting(acquire_wcu(1)), raising)))

LNext ==
    \/ Save \/ AsyncSave \/ AsyncSaveResumed
    \/ Delete \/ AsyncDelete \/ AsyncDeleteResumed
    \/ HookedUpdate \/ AsyncHookedUpdate \/ AsyncUpdateResumed
    \/ ModelGet

\* Every placeholder written into an expression of the request
RequestUses == { upd.out.req.update_uses[i] : i \in DOMAIN upd.out.req.update_uses }
               \cup { upd.out.req.cond_uses[i] : i \in DOMAIN upd.out.req.cond_uses }

\* C7: in the update_item request of an update that carries update operations
\* and a condition, every placeholder of the update expression and of the
\* condition expression is bound, in the name map and the value map sent, to
\* the one attribute name and the one value it was written for.
C7_PlaceholdersKeepTheirBinding ==
    (upd.called /\ upd.out.sent /\ upd.condition # NoCondition) =>
        \A u \in RequestUses :
            /\ u.np \in DOMAIN upd.out.req.names
            /\ upd.out.req.names[u.np] = u.attr
            /\ u.vp \in DOMAIN upd.out.req.values
            /\ upd.out.req.values[u.vp] = u.value

\* An update of "a" under a condition on "b" has been sent
C7_Witness ==
    /\ upd.called /\ upd.out.sent
    /\ upd.atomic # << >> /\ upd.condition # NoCondition
    /\ upd.atomic[1].attr # upd.condition[1].attr
    /\ Cardinality(DOMAIN upd.out.req.names) = 2

(***************************************************************************)
(* Class definition (ModelMeta.__new__), keys and indexes                  *)
(***************************************************************************)
AttrNames == <<"pk", "sk">>          \* in the order a class body declares them
IndexNames == {"email_index", "status_index"}
\* Attribute(hash_key=..., range_key=...): the flags of a declared attribute
Roles == {"absent", "hash", "range", "hash_range", "plain"}

\* A class body: the role of each attribute it declares and the
\* GlobalSecondaryIndex attributes it creates
Namespaces == [roles : [1..Len(AttrNames) -> Roles], indexes : SUBSET IndexNames]

NotDefined ==
    [defined |-> FALSE, attributes |-> {}, hash_key |-> "None", range_key |-> "None",
     indexes |-> << >>]

\* The index object a class body creates for one of its index attributes
IndexObject(cls, name) == <<cls, name>>
IndexObjects == (Classes \ {"Model"}) \X IndexNames

\* The last attribute of the body with the role, else what the base has
RECURSIVE LastWithRole(_, _, _, _)
LastWithRole(roles, role, i, inherited) ==
    IF i = 0 THEN inherited
    ELSE IF roles[i] \in {role, "hash_range"} THEN AttrNames[i]
    ELSE LastWithRole(roles, role, i - 1, inherited)

\* ModelMeta.__new__: what the new class stores
NewClass(cls, base, ns) ==
    [defined    |-> TRUE,
     attributes |-> base.attributes \cup
                    { AttrNames[i] : i \in { j \in DOMAIN ns.roles : ns.roles[j] # "absent" } },
     hash_key   |-> LastWithRole(ns.roles, "hash", Len(AttrNames), base.hash_key),
     range_key  |-> LastWithRole(ns.roles, "range", Len(AttrNames), base.range_key),
     indexes    |-> [n \in ns.indexes |-> IndexObject(cls, n)] @@ base.indexes]

\* for idx in indexes.values(): idx._bind_to_model(cls)
BindIndexes(cls, indexes) ==
    [o \in IndexObjects |->
        IF \E n \in DOMAIN indexes : indexes[n] = o THEN cls ELSE bound[o]]

\* class <cls>(<Parent(cls)>): <body>
DefineClass(cls) ==
    /\ ~defs[cls].defined
    /\ defs[Parent(cls)].defined
    /\ \E ns \in Namespaces :
          LET new == NewClass(cls, defs[Parent(cls)], ns)
          IN  /\ defs' = [defs EXCEPT ![cls] = new]
              /\ bound' = BindIndexes(cls, new.indexes)
    /\ UNCHANGED keyres
    /\ UNCHANGED not_kvars

\* getattr(self, name) of the instance the key is built for
InstanceValue == [n \in {"pk", "sk"} |-> IF n = "pk" THEN "PK#1" ELSE "SK#1"]

\* A key that holds every attribute of the instance
get_key_AllAttributes(hash_key, range_key) == InstanceValue

\* Model._get_key
get_key(hash_key, range_key) ==
    LET with_hash == IF hash_key # "None" THEN (hash_key :> InstanceValue[hash_key])
                     ELSE << >>
    IN  IF range_key # "None"
        THEN (range_key :> InstanceValue[range_key]) @@ with_hash
        ELSE with_hash

\* pydantic_integration._get_key_method
pydantic_get_key(hash_key, range_key) ==
    LET with_hash == (hash_key :> InstanceValue[hash_key])
    IN  IF range_key # "None"
        THEN (range_key :> InstanceValue[range_key]) @@ with_hash
        ELSE with_hash

NoKeyBuilt == [kind |-> "", hash_key |-> "None", range_key |-> "None", key |-> << >>]

\* instance._get_key() on an instance of a defined Model class
GetKey ==
    /\ \E cls \in Classes :
          /\ defs[cls].defined
          /\ keyres' = [kind |-> "Model", hash_key |-> defs[cls].hash_key,
                        range_key |-> defs[cls].range_key,
                        key |-> get_key(defs[cls].hash_key, defs[cls].range_key)]
    /\ UNCHANGED <<defs, bound>>
    /\ UNCHANGED not_kvars

\* @dynamodb_model(table=..., hash_key=..., range_key=...) and
\* instance._get_key() on an instance of the decorated class
PydanticGetKey ==
    /\ \E hash_key \in {"pk", "sk"}, range_key \in {"None", "pk", "sk"} :
          keyres' = [kind |-> "pydantic", hash_key |-> hash_key, range_key |-> range_key,
                     key |-> pydantic_get_key(hash_key, range_key)]
    /\ UNCHANGED <<defs, bound>>
    /\ UNCHANGED not_kvars

\* Only Model itself is defined
KInit ==
    /\ defs = [c \in Classes |-> IF c = "Model" THEN [NotDefined EXCEPT !.defined = TRUE]
                                 ELSE NotDefined]
    /\ bound = [o \in IndexObjects |-> "None"]
    /\ keyres = NoKeyBuilt

KNext == (\E cls \in Classes \ {"Model"} : DefineClass(cls)) \/ GetKey \/ PydanticGetKey

DeclaredKeys(k) ==
    (IF k.hash_key # "None" THEN {k.hash_key} ELSE {}) \cup
    (IF k.range_key # "None" THEN {k.range_key} ELSE {})

\* C18: the key of an instance always holds the hash-key attribute, holds the
\* range-key attribute exactly when the model declares one, and holds nothing
\* else.
C18_KeyIsHashAndDeclaredRange ==
    keyres.kind # "" =>
        /\ keyres.hash_key \in DOMAIN keyres.key
        /\ (keyres.range_key # "None") <=> (keyres.range_key \in DOMAIN keyres.key)
        /\ DOMAIN keyres.key \subseteq {keyres.hash_key, keyres.range_key}

\* C18, for what the model declares: the key holds exactly the hash-key
\* attribute, if the model has one, and the range-key attribute, if the model
\* has one, each with the instance's value; a Model class without a hash key
\* gets a key without one.
C18_KeyIsDeclaredHashAndRange ==
    keyres.kind # "" =>
        /\ DOMAIN keyres.key = DeclaredKeys(keyres)
        /\ \A n \in DOMAIN keyres.key : keyres.key[n] = InstanceValue[n]
        /\ keyres.kind = "pydantic" => keyres.hash_key \in DOMAIN keyres.key

\* A Model class with hash key and no range key, declaring a plain attribute
C18_Witness ==
    /\ keyres.kind = "Model"
    /\ keyres.hash_key = "pk" /\ keyres.range_key = "None"
    /\ defs["User"].defined /\ "sk" \in defs["User"].attributes
    /\ keyres.key = [n \in {"pk"} |-> "PK#1"]

\* C20: every index collected in a model class is bound to that class, for a
\* parent and its subclass at the same time.
C20_IndexesBoundToTheirClass ==
    \A cls \in Classes :
        defs[cls].defined =>
            \A n \in DOMAIN defs[cls].indexes : bound[defs[cls].indexes[n]] = cls

(***************************************************************************)
(* Attribute conversions (attributes.py).  Every Python value is a record  *)
(* with its kind; None is PyNone.                                          *)
(***************************************************************************)
Str(text) == [kind |-> "str", text |-> text]
IntOf(n) == [kind |-> "int", n |-> n]
\* A number as twice its value (1 is 2, 1.5 is 3), an int or a float
Num(n2, float) == [kind |-> IF float THEN "float" ELSE "int", n2 |-> n2]
\* A datetime: whole seconds of its wall clock, microseconds, tzinfo set (UTC)
Dt(sec, us, aware) == [kind |-> "datetime", sec |-> sec, us |-> us, aware |-> aware]
SetOf(elems) == [kind |-> "set", elems |-> elems]
ListOf(items) == [kind |-> "list", items |-> items]
\* A string made by the encryptor / compressor: prefix, then the encoded text
Tagged(prefix, text) == [kind |-> "str", prefix |-> prefix, text |-> text]
Member(name, value) == [kind |-> "enum", name |-> name, value |-> value]

\* What a conversion gave: a value, or the exception it raised
Gave(value) == [value |-> value, error |-> ""]
Failed(error) == [value |-> PyNone, error |-> error]

Texts == {"s", "long text"}
Seconds == 0..MaxSeconds
Micros == {0, 500000}
\* The seconds the local timezone is ahead of UTC (naive datetimes)
Offsets == {0, 1}
Datetimes == { Dt(sec, us, aware) : sec \in Seconds, us \in Micros, aware \in BOOLEAN }
Numbers == { Num(2, FALSE), Num(2, TRUE), Num(3, TRUE), Num(4, FALSE) }
\* class Status(Enum): A = "a"; class Level(Enum): ONE = 1
EnumClasses == [Status |-> {Member("A", Str("a")), Member("B", Str("b"))},
                Level  |-> {Member("ONE", IntOf(1))}]
EncryptionModes == {"None", "ReadWrite", "WriteOnly", "ReadOnly"}

\* Python's ==: numbers compare by value, sets by their elements, a naive
\* datetime never equals an aware one
RECURSIVE PyEq(_, _)
PyEq(a, b) ==
    CASE a = PyNone \/ b = PyNone -> a = b
      [] a.kind \in {"int", "float"} /\ b.kind \in {"int", "float"}
            /\ "n2" \in DOMAIN a /\ "n2" \in DOMAIN b -> a.n2 = b.n2
      [] a.kind = "set" /\ b.kind = "set" ->
            /\ \A x \in a.elems : \E y \in b.elems : PyEq(x, y)
            /\ \A y \in b.elems : \E x \in a.elems : PyEq(x, y)
      [] OTHER -> a = b

\* The orders in which a set of these elements may be iterated: the order
\* follows the hashes and the insertions, and no code fixes it
Orders(elems) ==
    { order \in [1..Cardinality(elems) -> elems] :
         \A i, j \in DOMAIN order : order[i] = order[j] => i = j }

\* list(value): the elements in the order the set is iterated
AsList(elems, order) == [i \in 1..Cardinality(elems) |-> order[i]]

\* The iteration orders of a value (one, empty, for what is no set)
OrdersOf(value) ==
    IF value # PyNone /\ value.kind = "set" THEN Orders(value.elems) ELSE { << >> }

\* int(x) of x = whole + micros / 10^6, 0 <= micros < 10^6: towards zero
Truncated(whole, micros) == IF whole < 0 /\ micros > 0 THEN whole + 1 ELSE whole

Range(seq) == { seq[i] : i \in DOMAIN seq }

\* KmsEncryptor (pydynox_core): encrypt, is_encrypted, decrypt
encrypt(value) == Tagged("ENC:", value.text)
is_encrypted(value) == "prefix" \in DOMAIN value /\ value.prefix = "ENC:"
decrypt(value) == Str(value.text)

\* compress_string / decompress_string (pydynox_core): a text shorter than
\* min_size is stored as it is
compress_string(value) ==
    IF value.text = "s" THEN value ELSE Tagged("ZSTD:", value.text)
decompress_string(value) ==
    IF "prefix" \in DOMAIN value /\ value.prefix = "ZSTD:" THEN Str(value.text)
    ELSE value

\* EncryptedAttribute._can_encrypt / _can_decrypt
can_encrypt(mode) == IF mode = "None" THEN TRUE ELSE mode # "ReadOnly"
can_decrypt(mode) == IF mode = "None" THEN TRUE ELSE mode # "WriteOnly"

\* EncryptedAttribute.serialize
encrypted_serialize(mode, value) ==
    IF value = PyNone THEN Gave(PyNone)
    ELSE IF ~can_encrypt(mode) THEN Gave(value)
    ELSE Gave(encrypt(value))

\* EncryptedAttribute.deserialize (of a str or None)
encrypted_deserialize(mode, value) ==
    IF value = PyNone THEN Gave(PyNone)
    ELSE IF ~is_encrypted(value) THEN Gave(value)
    ELSE IF ~can_decrypt(mode) THEN Gave(value)
    ELSE Gave(decrypt(value))

\* str(v) of a number, and float(s) followed by the is_integer() test
NumStr(v) == [kind |-> "str", n2 |-> v.n2, point |-> v.kind = "float"]
ParseNum(x) == IF x.n2 % 2 = 0 THEN Num(x.n2, FALSE) ELSE Num(x.n2, TRUE)

AttrTypes ==
    {"String", "Number", "TTL", "Compressed", "Encrypted", "Enum", "Datetime",
     "StringSet", "NumberSet"}

\* An attribute: its type and what its constructor was given
Attr(type, mode, enum_class) == [type |-> type, mode |-> mode, enum_class |-> enum_class]
Attrs ==
    { Attr(t, "None", "None") : t \in AttrTypes \ {"Encrypted", "Enum"} }
    \cup { Attr("Encrypted", m, "None") : m \in EncryptionModes }
    \cup { Attr("Enum", "None", c) : c \in DOMAIN EnumClasses }

\* The values of the attribute's Python type (None apart)
ValuesOf(attr) ==
    CASE attr.type \in {"String", "Compressed", "Encrypted"} -> { Str(t) : t \in Texts }
      [] attr.type = "Number" -> Numbers
      [] attr.type \in {"TTL", "Datetime"} -> Datetimes
      [] attr.type = "Enum" -> EnumClasses[attr.enum_class]
      [] attr.type = "StringSet" -> { SetOf(e) : e \in SUBSET { Str("x"), Str("y") } }
      [] attr.type = "NumberSet" -> { SetOf(e) : e \in SUBSET { Num(2, TRUE), Num(3, TRUE) } }

\* <Type>Attribute.serialize; tz: the local timezone of the process, order:
\* the order in which a set value is iterated
serialize(attr, value, tz, order) ==
    CASE attr.type \in {"String", "Number"} -> Gave(value)
      [] attr.type = "TTL" ->
            IF value = PyNone THEN Gave(PyNone)
            ELSE Gave(IntOf(Truncated(IF value.aware THEN value.sec ELSE value.sec - tz,
                                      value.us)))
      [] attr.type = "Compressed" ->
            IF value = PyNone THEN Gave(PyNone) ELSE Gave(compress_string(value))
      [] attr.type = "Encrypted" -> encrypted_serialize(attr.mode, value)
      [] attr.type = "Enum" ->
            IF value = PyNone THEN Gave(PyNone)
            ELSE IF value.value.kind = "int" THEN Gave(Str(ToString(value.value.n)))
            ELSE Gave(value.value)
      [] attr.type = "Datetime" ->
            IF value = PyNone THEN Gave(PyNone)
            ELSE Gave([kind |-> "iso", sec |-> value.sec, us |-> value.us, utc |-> TRUE])
      [] attr.type = "StringSet" ->
            IF value = PyNone \/ value.elems = {} THEN Gave(PyNone)
            ELSE Gave(ListOf(AsList(value.elems, order)))
      [] attr.type = "NumberSet" ->
            IF value = PyNone \/ value.elems = {} THEN Gave(PyNone)
            ELSE Gave(ListOf([i \in 1..Cardinality(value.elems) |->
                                 NumStr(AsList(value.elems, order)[i])]))

\* <Type>Attribute.deserialize of what serialize stored
deserialize(attr, value) ==
    CASE attr.type \in {"String", "Number"} -> Gave(value)
      [] attr.type = "TTL" ->
            IF value = PyNone THEN Failed("TypeError")
            ELSE Gave(Dt(value.n, 0, TRUE))
      [] attr.type = "Compressed" ->
            IF value = PyNone THEN Gave(PyNone) ELSE Gave(decompress_string(value))
      [] attr.type = "Encrypted" -> encrypted_deserialize(attr.mode, value)
      [] attr.type = "Enum" ->
            IF value = PyNone THEN Gave(PyNone)
            ELSE IF \E m \in EnumClasses[attr.enum_class] : m.value = value
            THEN Gave(CHOOSE m \in EnumClasses[attr.enum_class] : m.value = value)
            ELSE Failed("ValueError")
      [] attr.type = "Datetime" ->
            IF value = PyNone THEN Gave(PyNone)
            ELSE Gave(Dt(value.sec, value.us, value.utc))
      [] attr.type = "StringSet" ->
            IF value = PyNone THEN Gave(SetOf({}))
            ELSE Gave(SetOf(Range(value.items)))
      [] attr.type = "NumberSet" ->
            IF value = PyNone THEN Gave(SetOf({}))
            ELSE Gave(SetOf({ ParseNum(x) : x \in Range(value.items) }))

\* One conversion: what was asked of which attribute, and what came of it
Converted(op, attr, default, value, tz, stored, out) ==
    [op |-> op, attr |-> attr, default |-> default, value |-> value, tz |-> tz,
     stored |-> stored, out |-> out]

NoConversion ==
    Converted("", Attr("String", "None", "None"), PyNone, PyNone, 0, Gave(PyNone),
              Gave(PyNone))

\* attr.serialize(v)
Serialize ==
    /\ conv.op = ""
    /\ \E attr \in Attrs, tz \in Offsets :
          \E value \in ValuesOf(attr) \cup {PyNone} : \E order \in OrdersOf(value) :
             LET stored == serialize(attr, value, tz, order)
             IN  conv' = Converted("serialize", attr, PyNone, value, tz, stored, stored)
    /\ UNCHANGED objs
    /\ UNCHANGED not_avars

\* attr.deserialize(attr.serialize(v)): a value written and read back by the
\* same attribute
RoundTrip ==
    /\ conv.op = ""
    /\ \E attr \in Attrs, tz \in Offsets :
          \E value \in ValuesOf(attr) \cup {PyNone} : \E order \in OrdersOf(value) :
             LET stored == serialize(attr, value, tz, order)
             IN  conv' = Converted("round_trip", attr, PyNone, value, tz, stored,
                                   IF stored.error # "" THEN stored
                                   ELSE deserialize(attr, stored.value))
    /\ UNCHANGED objs
    /\ UNCHANGED not_avars

\* attr.deserialize(x) of a value another service stored encrypted
DeserializeEncrypted ==
    /\ conv.op = ""
    /\ \E mode \in EncryptionModes, text \in Texts :
          LET attr == Attr("Encrypted", mode, "None")
              stored == Gave(encrypt(Str(text)))
          IN  conv' = Converted("deserialize", attr, PyNone, Str(text), 0, stored,
                                deserialize(attr, stored.value))
    /\ UNCHANGED objs
    /\ UNCHANGED not_avars

\* Model.to_dict of an instance holding value, then Model.from_dict of the
\* result: to_dict leaves out None, from_dict deserializes what is there
\* and __init__ gives an absent attribute its default
from_dict_to_dict(attr, default, value, tz, order) ==
    LET stored == serialize(attr, value, tz, order)
        back == deserialize(attr, stored.value)
    IN  IF value = PyNone THEN Gave(default)
        ELSE IF stored.error # "" THEN stored
        ELSE back

\* M.from_dict(m.to_dict()) for a model with one attribute besides its key
FromDictToDict ==
    /\ conv.op = ""
    /\ \E attr \in Attrs, tz \in Offsets :
          \E value \in ValuesOf(attr) \cup {PyNone},
             default \in (IF attr.type = "Encrypted" THEN {} ELSE ValuesOf(attr))
                             \cup {PyNone} :
             \E order \in OrdersOf(value) :
                conv' = Converted("from_dict", attr, default, value, tz,
                                  serialize(attr, value, tz, order),
                                  from_dict_to_dict(attr, default, value, tz, order))
    /\ UNCHANGED objs
    /\ UNCHANGED not_avars

(***************************************************************************)
(* Mutable defaults: tags = ListAttribute(default=[]).  A list object is   *)
(* its number; list 0 is the attribute's default, list i is the one        *)
(* instance i was constructed with.                                        *)
(***************************************************************************)
DefaultList == 0

NoAppend == [done |-> FALSE, who |-> 0, before |-> << >>, after |-> << >>,
             default_before |-> << >>, default_after |-> << >>]

\* The value of tags seen on every instance
Seen(heap, insts) == [i \in DOMAIN insts |-> heap[insts[i]]]

\* Model.__init__: setattr(self, name, kwargs[name]) for a given value,
\* setattr(self, name, attr.default) otherwise
init_ListOf(heap, insts, given) ==
    LET i == Len(insts) + 1
    IN  IF given
        THEN [heap |-> [heap EXCEPT ![i] = <<"given">>], insts |-> Append(insts, i)]
        ELSE [heap |-> heap, insts |-> Append(insts, DefaultList)]

\* User() or User(tags=["given"])
NewInstance ==
    /\ Len(objs.insts) < MaxInstances
    /\ \E given \in BOOLEAN :
          LET new == init_ListOf(objs.heap, objs.insts, given)
          IN  objs' = [objs EXCEPT !.heap = new.heap, !.insts = new.insts]
    /\ UNCHANGED conv
    /\ UNCHANGED not_avars

\* user.tags.append("x") on instance i
AppendTo(i) ==
    /\ Len(objs.heap[objs.insts[i]]) < MaxAppends
    /\ LET heap == [objs.heap EXCEPT ![objs.insts[i]] = Append(@, "x")]
       IN  objs' = [objs EXCEPT
                      !.heap = heap,
                      !.app = [done |-> TRUE, who |-> i,
                               before |-> Seen(objs.heap, objs.insts),
                               after |-> Seen(heap, objs.insts),
                               default_before |-> objs.heap[DefaultList],
                               default_after |-> heap[DefaultList]]]
    /\ UNCHANGED conv
    /\ UNCHANGED not_avars

Append_ == \E i \in DOMAIN objs.insts : AppendTo(i)

AInit ==
    /\ conv = NoConversion
    /\ objs = [heap |-> [i \in 0..MaxInstances |-> << >>], insts |-> << >>,
               app |-> NoAppend]

AIdle == AInit

ANext ==
    \/ Serialize \/ RoundTrip \/ DeserializeEncrypted \/ FromDictToDict
    \/ NewInstance
    \/ Append_

\* C21: an EncryptedAttribute in ReadOnly mode fails when it is asked to
\* serialize a value that is not None, one in WriteOnly mode fails when it is
\* asked to deserialize an encrypted value; in ReadWrite mode, the default,
\* serialize gives the encrypted value and deserialize the plain one.
C21_ModeForbidsOperation ==
    (conv.op \in {"serialize", "deserialize"} /\ conv.attr.type = "Encrypted"
        /\ conv.value # PyNone) =>
        CASE conv.op = "serialize" /\ conv.attr.mode = "ReadOnly" -> conv.out.error # ""
          [] conv.op = "deserialize" /\ conv.attr.mode = "WriteOnly" -> conv.out.error # ""
          [] conv.attr.mode \in {"None", "ReadWrite"} ->
                /\ conv.out.error = ""
                /\ conv.op = "serialize" => is_encrypted(conv.out.value)
                /\ conv.op = "deserialize" => conv.out.value = conv.value
          [] OTHER -> TRUE

\* C23: for every attribute type and every value of the type (None apart),
\* deserializing the serialized value gives a value equal to it, and
\* from_dict(to_dict()) gives back every such attribute value.
C23_RoundTripIsIdentity ==
    (conv.op \in {"round_trip", "from_dict"} /\ conv.value # PyNone) =>
        conv.out.error = "" /\ PyEq(conv.out.value, conv.value)

\* C30: appending to the value of an attribute with a mutable default on one
\* instance changes neither the value seen on any other instance nor the
\* attribute's default.
C30_InstancesShareNoDefault ==
    objs.app.done =>
        /\ \A j \in DOMAIN objs.app.before :
              j # objs.app.who => objs.app.after[j] = objs.app.before[j]
        /\ objs.app.default_after = objs.app.default_before

(***************************************************************************)
(* @dynamodb_model classes: _get_client_method run by several threads.     *)
(* A thread can be preempted between any two of its steps.                 *)
(***************************************************************************)
Threads == 1..NumThreads

\* if cls._pydynox_client is None:
Check(t) ==
    /\ thr[t].pc = "check"
    /\ thr' = [thr EXCEPT ![t].pc = IF pyd_client = 0 THEN "construct" ELSE "return"]
    /\ UNCHANGED <<pyd_client, constructed>>
    /\ UNCHANGED not_rvars

\* DynamoDBClient(region=..., endpoint_url=...)
Construct(t) ==
    /\ thr[t].pc = "construct"
    /\ constructed' = constructed + 1
    /\ thr' = [thr EXCEPT ![t].pc = "assign", ![t].made = constructed + 1]
    /\ UNCHANGED pyd_client
    /\ UNCHANGED not_rvars

\* cls._pydynox_client = <the new client>
Assign(t) ==
    /\ thr[t].pc = "assign"
    /\ pyd_client' = thr[t].made
    /\ thr' = [thr EXCEPT ![t].pc = "return"]
    /\ UNCHANGED constructed
    /\ UNCHANGED not_rvars

\* return cls._pydynox_client
Return(t) ==
    /\ thr[t].pc = "return"
    /\ thr' = [thr EXCEPT ![t].pc = "done", ![t].ret = pyd_client]
    /\ UNCHANGED <<pyd_client, constructed>>
    /\ UNCHANGED not_rvars

RInit ==
    /\ pyd_client = 0
    /\ constructed = 0
    /\ thr = [t \in Threads |-> [pc |-> "check", made |-> 0, ret |-> 0]]

RNext == \E t \in Threads : Check(t) \/ Construct(t) \/ Assign(t) \/ Return(t)

\* C9: however the threads interleave, the client is constructed at most once
\* and all callers get the same instance.
C9_ConstructedAtMostOnce ==
    /\ constructed <= 1
    /\ \A t1, t2 \in Threads :
          (thr[t1].pc = "done" /\ thr[t2].pc = "done") => thr[t1].ret = thr[t2].ret

(***************************************************************************)
(* Pagination claims                                                       *)
(***************************************************************************)
Ended(r) == Built(r) /\ r.stops >= 1

\* The page the last wire call of r fetched
LastPageFetched(r) == r.events[Len(r.events)].n + 1

\* C1: iterating one QueryResult until it ends yields exactly the N items of
\* the query, each once, in server order, for every split over the pages.
C1_IterationYieldsAllItems ==
    Ended(q[1]) => q[1].ended_with = AllItems

\* The read of last_evaluated_key happened in the middle of the iteration
MidIteration == cap.taken /\ cap.started /\ ~cap.ended

\* C2 (as stated): a fresh QueryResult started from a last_evaluated_key read
\* mid-iteration yields exactly the items the first iterator had not yet
\* yielded.
C2_ResumeYieldsNotYetYielded ==
    (MidIteration /\ Ended(q[2])) =>
        q[2].ended_with = DropFirst(AllItems, cap.count)

\* C2 (amended): the cursor marks a page boundary. Read while non-None, the
\* fresh result yields what the first iterator goes on to yield after the
\* items still unread in its page buffer (so exactly its not-yet-yielded items
\* only when the buffer was fully read); read as None, the fresh result starts
\* the query over.
C2_ResumeAtPageBoundary ==
    (MidIteration /\ Ended(q[1]) /\ Ended(q[2])) =>
        IF cap.key # NoKey
        THEN q[2].ended_with = DropFirst(q[1].ended_with, cap.count + cap.unread)
        ELSE q[2].ended_with = q[1].ended_with

C2_Witness ==
    /\ MidIteration /\ Ended(q[1]) /\ Ended(q[2])
    /\ cap.key # NoKey /\ cap.unread = 0
    /\ q[2].ended_with # <<>>
    /\ q[2].ended_with = DropFirst(AllItems, cap.count)

\* C3 (as stated): while the result is iterated, last_evaluated_key is None
\* exactly when the final item has been yielded.
C3_NoneExactlyAfterFinalItem ==
    (~q[1].first_fetch /\ q[1].stops = 0) =>
        (q[1].last_evaluated_key = NoKey <=> Len(q[1].yielded) = Len(AllItems))

\* C3 (amended): once the first page has been fetched, last_evaluated_key is
\* None exactly when the last page of the query has been fetched, whether or
\* not items of that page are still to be yielded; before the first fetch it
\* is None, whatever key the QueryResult was constructed with.
C3_NoneExactlyWhenLastPageFetched ==
    \A i \in 1..2 :
        Built(q[i]) =>
            IF q[i].first_fetch
            THEN q[i].last_evaluated_key = NoKey
            ELSE (q[i].last_evaluated_key = NoKey <=> LastPageFetched(q[i]) = NumPages)

\* The last page is fetched with items still to be yielded, and a second
\* result constructed with a key has not fetched yet
C3_Witness ==
    /\ ~q[1].first_fetch /\ q[1].stops = 0
    /\ q[1].last_evaluated_key = NoKey
    /\ Len(q[1].yielded) >= 1
    /\ Len(q[1].yielded) < Len(AllItems)
    /\ NumPages > 1
    /\ Built(q[2]) /\ q[2].first_fetch
    /\ q[2].start_key # NoKey /\ q[2].last_evaluated_key = NoKey

IsWire(e) == e.op = "query_page"

\* The wire calls of r, in the order they were made
Wires(r) == SelectSeq(r.trace, IsWire)

\* The steps of r of one kind
Steps(r, op) == { p \in DOMAIN r.trace : r.trace[p].op = op }

\* C24: the page fetches of one QueryResult are chained: the first wire call
\* uses the start key the result was constructed with, each later one uses
\* the cursor the wire call before it returned and happens in a later next(),
\* and no key is used for two fetches.
C24_FetchesChained ==
    \A i \in 1..2 :
        Built(q[i]) =>
            LET w == Wires(q[i])
            IN  /\ Len(w) >= 1 => w[1].n = q[i].start_key
                /\ \A k \in 1..(Len(w) - 1) :
                      w[k + 1].n = w[k].lek /\ w[k + 1].call > w[k].call
                /\ \A k, l \in DOMAIN w : k # l => w[k].n # w[l].n

\* A result constructed with a cursor has made two chained wire calls
C24_Witness ==
    /\ Built(q[2]) /\ q[2].start_key # NoKey
    /\ Len(Wires(q[2])) >= 2
    /\ Wires(q[2])[1].n = q[2].start_key
    /\ Wires(q[2])[2].n = Wires(q[2])[1].lek

\* The first StopIteration of r
FirstStop(r) == CHOOSE p \in Steps(r, "stop") : \A p2 \in Steps(r, "stop") : p <= p2

\* C25: next() makes a wire call only when every item of the page buffer has
\* been returned; an iteration to its end over a result of P pages makes
\* exactly P wire calls; no wire call follows the page that carried no cursor.
C25_OneFetchPerPage ==
    \A i \in 1..2 :
        Built(q[i]) =>
            LET r == q[i]
            IN  /\ \A p \in Steps(r, "query_page") : r.trace[p].unread = 0
                /\ Ended(r) =>
                      Cardinality({ p \in Steps(r, "query_page") : p < FirstStop(r) })
                          = NumPages - r.start_key
                /\ \A p, p2 \in Steps(r, "query_page") :
                      r.trace[p].lek = NoKey => p2 <= p

\* C26: a fetched page without items ends the iteration in the same next()
\* call, with or without a cursor: StopIteration follows the wire call at
\* once and no call fetches twice.
EmptyPageStops ==
    \A i \in 1..2 :
        Built(q[i]) =>
            LET r == q[i]
            IN  /\ \A p \in Steps(r, "query_page") :
                      r.trace[p].count = 0 =>
                          /\ p < Len(r.trace)
                          /\ r.trace[p + 1].op = "stop"
                          /\ r.trace[p + 1].call = r.trace[p].call
                /\ \A p, p2 \in Steps(r, "query_page") :
                      p # p2 => r.trace[p].call # r.trace[p2].call

\* ... so an iteration that keeps calling next() terminates.
C26_EmptyPageEndsIteration == [](EmptyPageStops) /\ <>(Ended(q[1]))

\* An empty page that carried a cursor ended the iteration
C26_Witness ==
    /\ Ended(q[1])
    /\ \E p \in Steps(q[1], "query_page") :
          /\ q[1].trace[p].count = 0 /\ q[1].trace[p].lek # NoKey
          /\ p = FirstStop(q[1]) - 1

\* C27: once a QueryResult has raised StopIteration, every later next() on
\* it raises StopIteration too, returning no item and making no wire call.
C27_NotRestartable ==
    \A i \in 1..2 :
        Built(q[i]) =>
            \A p, p2 \in DOMAIN q[i].trace :
                (q[i].trace[p].op = "stop" /\ p < p2) => q[i].trace[p2].op = "stop"

\* C28: each page fetch requests read capacity exactly once, immediately
\* before its wire call, with an estimate of the page limit when a limit is
\* set and of 1 otherwise; returning an item from the buffer requests none.
C28_CapacityBeforeEachFetch ==
    \A i \in 1..2 :
        (Built(q[i]) /\ q[i].acquire_rcu) =>
            LET r == q[i]
            IN  /\ \A p \in Steps(r, "query_page") :
                      /\ p > 1
                      /\ r.trace[p - 1].op = "acquire_rcu"
                      /\ r.trace[p - 1].call = r.trace[p].call
                      /\ r.trace[p - 1].n = IF r.limit # NoLimit THEN r.limit ELSE 1
                /\ \A p \in Steps(r, "acquire_rcu") :
                      p < Len(r.trace) /\ r.trace[p + 1].op = "query_page"

\* With a limit of more than one item: two fetches, and an item returned from
\* the buffer by a call that requested nothing
C28_Witness ==
    /\ q[1].limit > 1
    /\ Cardinality(Steps(q[1], "query_page")) >= 2
    /\ Cardinality(Steps(q[1], "acquire_rcu")) = Cardinality(Steps(q[1], "query_page"))
    /\ \E p \in Steps(q[1], "yield") : p > 1 /\ q[1].trace[p - 1].op = "yield"

(***************************************************************************)
(* Client claims                                                           *)
(***************************************************************************)
Events == last.call.events

Positions(kind) == { i \in 1..Len(Events) : Events[i].ev \in kind }

AcquireKinds == {"acquire_rcu", "acquire_wcu"}

ReadOps == {"get_item", "async_get_item", "batch_get"}

CapacityOps ==
    {"get_item", "put_item", "delete_item", "update_item", "batch_write", "batch_get",
     "async_get_item", "async_put_item", "async_delete_item", "async_update_item"}

\* The estimated cost of the last call
EstimatedCost ==
    CASE last.call.op = "batch_write" -> Len(last.put_items) + Len(last.delete_keys)
      [] last.call.op = "batch_get"   -> Len(last.keys)
      [] OTHER                        -> 1

\* C4: with a rate limiter, every capacity-consuming operation acquires its
\* estimated cost exactly once, of the right kind, before its wire call.
C4_AcquiresCostOnceBeforeWire ==
    (rate_limit /\ last.call.op \in CapacityOps) =>
        /\ Cardinality(Positions(AcquireKinds)) = 1
        /\ \A i \in Positions(AcquireKinds) :
              /\ Events[i].n = EstimatedCost
              /\ Events[i].ev = IF last.call.op \in ReadOps THEN "acquire_rcu"
                                ELSE "acquire_wcu"
              /\ \A j \in Positions({"call", "dispatch"}) : i < j
        /\ Cardinality(Positions({"call"})) = 1

C4_Witness ==
    /\ rate_limit
    /\ last.call.op = "batch_write"
    /\ Len(last.put_items) >= 1 /\ Len(last.delete_keys) >= 1
    /\ Events[1] = Ev("acquire_wcu", "", Len(last.put_items) + Len(last.delete_keys))
    /\ Positions({"dispatch"}) # {}

SingleItemOps ==
    {"get_item", "put_item", "delete_item", "update_item",
     "async_get_item", "async_put_item", "async_delete_item", "async_update_item"}

\* C5: a terminal failure is dispatched once and reaches the caller; a failure
\* that stays transient is dispatched again until the configured maximum of
\* retries is spent, and then the last error surfaces with that retry count.
C5_TerminalOnceTransientUpToMax ==
    (last.call.op \in SingleItemOps) =>
        /\ (last.net[1] \in Terminal) =>
              /\ Cardinality(Positions({"dispatch"})) = 1
              /\ last.call.result.kind = "raise"
              /\ last.call.result.error = last.net[1]
              /\ last.call.result.metrics.retry_count = 0
        /\ (\A i \in 1..(MaxRetries + 1) : last.net[i] \in Transient) =>
              /\ Cardinality(Positions({"dispatch"})) = MaxRetries + 1
              /\ last.call.result.kind = "raise"
              /\ last.call.result.error = last.net[MaxRetries + 1]
              /\ last.call.result.metrics.retry_count = MaxRetries

C5_Witness ==
    /\ last.call.op = "put_item"
    /\ \A i \in 1..(MaxRetries + 1) : last.net[i] = "ThrottlingError"
    /\ last.call.result.kind = "raise"
    /\ Cardinality(Positions({"dispatch"})) = MaxRetries + 1

\* C6: transact_write makes one wire call; a failure of it, ambiguous or not,
\* is raised to the caller and the transaction is not sent again.
C6_TransactionDispatchedOnce ==
    (last.call.op = "transact_write") =>
        /\ Cardinality(Positions({"call"})) = 1
        /\ Cardinality(Positions({"dispatch"})) = 1
        /\ (last.net[1] # "ok") =>
              /\ last.call.result.kind = "raise"
              /\ last.call.result.error = last.net[1]
        /\ (last.net[1] = "ok") => last.call.result.kind = "return"

C6_Witness ==
    /\ last.call.op = "transact_write"
    /\ last.net[1] = "TimeoutError"
    /\ last.net[2] = "ok"
    /\ last.call.result.kind = "raise"
    /\ last.call.result.error = "TimeoutError"

\* The wire call of the last call succeeded
WireOk == \E i \in 1..(MaxRetries + 1) :
              /\ last.net[i] = "ok"
              /\ \A j \in 1..(i - 1) : last.net[j] \in Transient

\* C8: a get on a key the table does not hold returns None, from get_item,
\* async_get_item and Model.get alike; a found item comes back with the keys
\* and values of the wire result, and its metrics.
C8_MissingKeyReturnsNone ==
    (last.call.op \in {"get_item", "async_get_item", "Model.get"} /\ WireOk
        /\ last.call.result.error # "ValueError") =>
        /\ last.call.result.kind = "return"
        /\ (store[last.key] = PyNone) => last.call.result.value = PyNone
        /\ (store[last.key] # PyNone /\ last.call.op # "Model.get") =>
              /\ last.call.result.value.data = store[last.key]
              /\ last.call.result.value.metrics = last.call.result.metrics

\* C17: on a client without a rate limiter acquiring capacity and notifying a
\* throttle do nothing, and every operation goes straight to its wire call.
C17_NoLimiterNoWaiting ==
    (~rate_limit /\ last.call.op \in CapacityOps) =>
        /\ Positions(AcquireKinds \cup {"on_throttle"}) = {}
        /\ acquire_rcu(EstimatedCost) = <<>>
        /\ acquire_wcu(EstimatedCost) = <<>>
        /\ on_throttle = <<>>
        /\ Events # <<>>
        /\ Events[1].ev = "call"

\* A batch write on a client without a rate limiter
C17_Witness ==
    /\ ~rate_limit
    /\ last.call.op = "batch_write"
    /\ Len(last.put_items) + Len(last.delete_keys) >= 2
    /\ Events[1].ev = "call"

\* The name a single-item operation is logged under
LoggedName ==
    CASE last.call.op \in {"get_item", "async_get_item"} -> "get_item"
      [] last.call.op \in {"put_item", "async_put_item"} -> "put_item"
      [] last.call.op \in {"delete_item", "async_delete_item"} -> "delete_item"
      [] OTHER -> "update_item"

\* C16: every get, put, delete or update that returns, sync or async, has
\* written exactly one operation record, with the operation name, the table,
\* the duration and the consumed capacity, followed by a warning exactly when
\* the duration is above the slow-operation threshold.
C16_OneLogRecordWarningIfSlow ==
    (last.call.op \in SingleItemOps /\ last.call.result.kind = "return") =>
        LET d == last.call.result.metrics.duration_ms
        IN  /\ Cardinality(Positions({"log_operation"})) = 1
            /\ \A i \in Positions({"log_operation"}) :
                  /\ Events[i] = [ev |-> "log_operation", op |-> LoggedName, n |-> d,
                                   table |-> Table,
                                   consumed |-> IF LoggedName = "get_item"
                                                THEN "consumed_rcu" ELSE "consumed_wcu"]
                  /\ \A j \in Positions({"call", "dispatch"}) : j < i
                  /\ \A w \in Positions({"log_warning"}) :
                        i < w /\ Events[w].op = LoggedName
            /\ Cardinality(Positions({"log_warning"})) =
                  IF d > SlowQueryThresholdMs THEN 1 ELSE 0

\* A slow async get: one record, one warning
C16_Witness ==
    /\ last.call.op = "async_get_item" /\ last.call.result.kind = "return"
    /\ last.call.result.metrics.duration_ms > SlowQueryThresholdMs
    /\ Positions({"log_warning"}) # {}

\* C15: with a rate limiter, after every attempt that was throttled the
\* limiter's on_throttle is invoked before the next attempt is dispatched.
C15_ThrottleNotifiedBeforeNextAttempt ==
    (rate_limit /\ last.call.op \in CapacityOps) =>
        \A j, k \in Positions({"dispatch"}) :
            (Events[k].n = Events[j].n + 1 /\ last.net[Events[j].n] = "ThrottlingError") =>
                \E i \in Positions({"on_throttle"}) : j < i /\ i < k

ConsistentGets ==
    {"get_item(consistent_read)", "async_get_item(consistent_read)", "Model.get"}

\* C14: with a rate limiter, a get issued with consistent_read=True acquires
\* 2 read units, once, where the plain get acquires 1.
C14_ConsistentReadChargedDouble ==
    (rate_limit /\ last.call.op \in ConsistentGets /\ last.consistent_read = "True"
        /\ last.call.result.error # "ValueError") =>
        /\ Cardinality(Positions(AcquireKinds)) = 1
        /\ \A i \in Positions(AcquireKinds) :
              Events[i].ev = "acquire_rcu" /\ Events[i].n = 2

(***************************************************************************)
(* Model client claims                                                     *)
(***************************************************************************)
\* C10: once M._get_client() has returned a client, every later call returns
\* that client, whatever happens to the default client in between.
C10_ClientHandleIsSticky ==
    \A cls \in Classes : first_ret[cls] # "" => last_ret[cls] = first_ret[cls]

C10_Witness ==
    /\ first_ret["User"] = "c1"
    /\ last_ret["User"] = "c1"
    /\ default_client = "c2"
    /\ config_client["User"] = "None"

\* What the configuration in force resolves to for a class: its
\* model_config.client, else the default client, else ValueError
Configured(cls, default) ==
    IF Lookup(config_client, cls) \notin {"unset", "None"}
    THEN Lookup(config_client, cls)
    ELSE IF default # "None" THEN default ELSE "ValueError"

\* C11: the first _get_client() of a class, whatever was done with other
\* classes before, gives the class's model_config.client when set, else the
\* default client, and raises ValueError when neither is set.
C11_ClientFollowsConfiguration ==
    (asked.cls # "" /\ asked.fresh) => asked.ret = Configured(asked.cls, asked.default)

(***************************************************************************)
(* Lifecycle claims                                                        *)
(***************************************************************************)
LifecycleOp ==
    CASE upd.op \in {"save", "async_save"} -> "save"
      [] upd.op \in {"delete", "async_delete"} -> "delete"
      [] OTHER -> "update"

\* Positions, in the order things happened, of the hooks of one type and of
\* the call handed to the core
HookPos(hook_type) ==
    { i \in DOMAIN upd.out.events :
         upd.out.events[i].ev = "hook" /\ upd.out.events[i].op = hook_type }
WirePos == { i \in DOMAIN upd.out.events : upd.out.events[i].ev = "call" }
BeforePos == HookPos(BeforeHook(LifecycleOp))
AfterPos == HookPos(AfterHook(LifecycleOp))

\* update() with neither atomic operations nor keywords
EmptyUpdate == LifecycleOp = "update" /\ upd.atomic = << >> /\ upd.kwargs = << >>

BeforeHookRaised ==
    /\ upd.raising.hook_type = BeforeHook(LifecycleOp)
    /\ ~should_skip_hooks(upd.skip_hooks)

HooksInOrder ==
    /\ \A b \in BeforePos, w \in WirePos : b < w
    /\ \A a \in AfterPos, w \in WirePos : w < a
    /\ \A b \in BeforePos, a \in AfterPos : b < a
    /\ (WirePos # {} /\ ~should_skip_hooks(upd.skip_hooks)) =>
          Cardinality(BeforePos) = Len(HookNames)
    /\ BeforeHookRaised => (WirePos = {} /\ ~upd.out.sent /\ AfterPos = {}
                             /\ upd.out.error = "HookError")

\* C12: save, delete and update run before hooks, then the wire call, then
\* after hooks; a before hook that raises leaves no wire call; after hooks
\* run only once the wire call has returned successfully.
C12_HooksAroundWireCall ==
    upd.called =>
        /\ HooksInOrder
        /\ AfterPos # {} => (WirePos # {} /\ upd.net = NoNet)

\* C12, for every call but the update without changes: the same order, and
\* after hooks only after a wire call that returned successfully; the update
\* without changes runs its after hooks with no wire call.
C12_HooksAroundWireCallWhenSent ==
    upd.called =>
        /\ HooksInOrder
        /\ (AfterPos # {} /\ ~EmptyUpdate) => (WirePos # {} /\ upd.net = NoNet)
        /\ EmptyUpdate => WirePos = {}

\* A save whose second before hook raised
C12_Witness ==
    /\ upd.called /\ upd.op = "save"
    /\ upd.raising = [hook_type |-> "before_save", i |-> 2]
    /\ Cardinality(BeforePos) = 2
    /\ ~upd.out.sent

HooksRan == BeforePos # {}

\* The call raised before it reached the client method
FailedBeforeWire ==
    \/ BeforeHookRaised
    \/ (~upd.out.sent /\ upd.out.error \in {"ValueError", "ItemTooLargeError"})

SkipDecided ==
    /\ upd.skip_hooks = "True" => (~HooksRan /\ AfterPos = {})
    /\ upd.skip_hooks = "False" => HooksRan
    /\ upd.skip_hooks = "None" => (HooksRan <=> ~skip_hooks_cfg)

\* C13: the skip_hooks argument decides whether hooks run when it is not
\* None, the model configuration when it is None; the wire call is issued
\* in every case.
C13_SkipHooksDecides ==
    upd.called =>
        /\ SkipDecided
        /\ ~FailedBeforeWire => upd.out.sent

\* C13, with the wire call issued in every case but the update without
\* changes, which issues none whether or not hooks are skipped.
C13_SkipHooksDecidesWhenSent ==
    upd.called =>
        /\ SkipDecided
        /\ (~FailedBeforeWire /\ ~EmptyUpdate) => (upd.out.sent /\ WirePos # {})
        /\ EmptyUpdate => ~upd.out.sent

\* The configuration says skip, the call says run: hooks ran, the call was sent
C13_Witness ==
    /\ upd.called /\ upd.skip_hooks = "False" /\ skip_hooks_cfg
    /\ HooksRan /\ AfterPos # {}
    /\ upd.out.sent

SaveCalled == upd.called /\ upd.op \in {"save", "async_save"}

\* C22: a save that reaches the size check with max_size set and an item
\* larger than max_size raises ItemTooLargeError, hands no put_item to the
\* client and runs no after_save hook; with an item of at most max_size
\* bytes, on a model with a client, the put_item is issued.
C22_TooLargeItemNotSaved ==
    (SaveCalled /\ ~BeforeHookRaised /\ upd.too_large.max_size # NoMaxSize) =>
        IF \A m \in upd.too_large.max_size : upd.too_large.size > m
        THEN upd.out.error = "ItemTooLargeError" /\ WirePos = {} /\ AfterPos = {}
        ELSE get_client("User").ret # "ValueError" => Cardinality(WirePos) = 1

\* An item one byte over max_size was refused after its before hooks ran
C22_Witness ==
    /\ SaveCalled /\ ~BeforeHookRaised
    /\ upd.too_large = Sized({1}, 2)
    /\ BeforePos # {} /\ upd.out.error = "ItemTooLargeError" /\ ~upd.out.sent

\* Keywords of the latest update call that name no declared attribute
UnknownKeywords == { i \in DOMAIN upd.kwargs : upd.kwargs[i].attr \notin Declared }

\* C19: on a model with a client, update with a keyword that is not a
\* declared attribute raises ValueError and hands no update_item to the
\* client; update with keywords that are all declared attributes sets each of
\* them on the instance and hands the client exactly one update_item that
\* carries exactly those updates.
C19_UpdateChecksAndSendsKeywords ==
    (upd.called /\ upd.op \in {"update", "async_update"} /\ upd.kwargs # << >>
        /\ get_client("User").ret # "ValueError") =>
        IF UnknownKeywords # {}
        THEN upd.out.error = "ValueError" /\ WirePos = {}
        ELSE /\ \A i \in DOMAIN upd.kwargs :
                   upd.out.inst[upd.kwargs[i].attr] = upd.kwargs[i].value
             /\ Cardinality(WirePos) = 1
             /\ upd.out.req.updates = upd.kwargs

\* C29: when update raises ValueError because a keyword is not a declared
\* attribute, the instance is as it was before the call: no other keyword of
\* the call has been applied to it.
C29_RejectedUpdateLeavesInstance ==
    (upd.called /\ upd.op \in {"update", "async_update"}
        /\ UnknownKeywords # {} /\ upd.out.error = "ValueError") =>
        upd.out.inst = upd.before

(***************************************************************************)
(* Specifications                                                          *)
(***************************************************************************)
QIdle == pages = <<0>> /\ q = <<NotBuilt, NotBuilt>> /\ cap = [taken |-> FALSE]

CIdle ==
    /\ rate_limit = FALSE
    /\ tables = {Table}
    /\ store = [k \in Keys |-> PyNone]
    /\ last = NoCall
    /\ calls = 0
    /\ pending = <<>>

RIdle ==
    /\ pyd_client = 0
    /\ constructed = 0
    /\ thr = [t \in Threads |-> [pc |-> "done", made |-> 0, ret |-> 0]]

MIdle ==
    /\ client_instance = [c \in Classes |-> IF c = "Model" THEN "None" ELSE "unset"]
    /\ config_client = [c \in Classes |-> "unset"]
    /\ skip_hooks_cfg = FALSE
    /\ default_client = "None"
    /\ first_ret = [c \in Classes |-> ""]
    /\ last_ret = [c \in Classes |-> ""]
    /\ asked = NoAsk

InitQuery == QInit /\ CIdle /\ MIdle /\ UInit /\ RIdle /\ KInit /\ AIdle

\* The model classes of the client runs: User configured with a client or
\* with none, no default client set, Admin inheriting User's configuration
ClientRunClasses ==
    /\ client_instance = [c \in Classes |-> IF c = "Model" THEN "None" ELSE "unset"]
    /\ \E user \in {"None", "c1"} :
          config_client = [c \in Classes |-> IF c = "User" THEN user ELSE "unset"]
    /\ skip_hooks_cfg = FALSE
    /\ default_client = "None"
    /\ first_ret = [c \in Classes |-> ""]
    /\ last_ret = [c \in Classes |-> ""]
    /\ asked = NoAsk

InitClient == CInit /\ QIdle /\ ClientRunClasses /\ UInit /\ RIdle /\ KInit /\ AIdle

InitModel == ClassInit /\ QIdle /\ CIdle /\ UInit /\ RIdle /\ KInit /\ AIdle

InitRace == RInit /\ QIdle /\ CIdle /\ MIdle /\ UInit /\ KInit /\ AIdle

InitAttributes == AInit /\ QIdle /\ CIdle /\ MIdle /\ UInit /\ RIdle /\ KInit

InitClasses == KInit /\ QIdle /\ CIdle /\ MIdle /\ UInit /\ RIdle /\ AIdle

UpdateRunClasses ==
    /\ client_instance = [c \in Classes |-> IF c = "Model" THEN "None" ELSE "unset"]
    /\ \E user \in {"None", "c1"} :
          config_client = [c \in Classes |-> IF c = "User" THEN user ELSE "unset"]
    /\ skip_hooks_cfg \in BOOLEAN
    /\ default_client = "None"
    /\ first_ret = [c \in Classes |-> ""]
    /\ last_ret = [c \in Classes |-> ""]
    /\ asked = NoAsk

InitUpdate ==
    /\ UInit /\ UpdateRunClasses /\ QIdle /\ RIdle /\ KInit /\ AIdle
    /\ rate_limit = TRUE
    /\ tables = {Table}
    /\ store = [k \in Keys |-> PyNone]
    /\ last = NoCall
    /\ calls = 0
    /\ pending = <<>>

\* Iterating a query result, and resuming it from a saved cursor
SpecQuery == InitQuery /\ [][QNext]_vars

\* The same, with a caller that keeps calling next() on the first result
\* until it has raised StopIteration MaxStops times
SpecQueryFair == InitQuery /\ [][QNext]_vars /\ WF_vars(Next_(1))

\* Calls on a DynamoDBClient and on its table, or Model.get through it
SpecClient == InitClient /\ [][CNext]_vars

\* Model classes resolving their client while the default client changes
SpecModel == InitModel /\ [][MNext]_vars

\* Updates of a User instance
SpecUpdate == InitUpdate /\ [][UNext]_vars

\* Saves, deletes, updates and gets of a User instance whose hooks may raise
SpecLifecycle == InitUpdate /\ [][LNext]_vars

\* Model classes being defined, and keys built for their instances
SpecClasses == InitClasses /\ [][KNext]_vars

\* Attribute conversions, and instances of a model with a mutable default
SpecAttributes == InitAttributes /\ [][ANext]_vars

\* Threads racing through _get_client of one @dynamodb_model class
SpecRace == InitRace /\ [][RNext]_vars

====
